---- MODULE Spec2Model ----
(***************************************************************************)
(* A model of the idevice service clients: the AFC engine                  *)
(* (idevice/src/afc/mod.rs), the House Arrest client and its hand-off to   *)
(* AFC (idevice/src/house_arrest/mod.rs), the Notification Proxy client    *)
(* with its background reader (idevice/src/notification_proxy/mod.rs), the *)
(* connection to the usbmuxd multiplexer (idevice/src/usbmuxd/mod.rs) and  *)
(* the Screenshot client (idevice/src/screenshot/mod.rs).                  *)
(*                                                                         *)
(* Byte strings (Vec<u8>, &[u8]) are kept run-length encoded: a sequence   *)
(* of runs [b |-> byte, n |-> count], adjacent runs holding different      *)
(* bytes.  The encoding is exact, and lets a 65536-byte chunk be one run.  *)
(***************************************************************************)
EXTENDS Integers, Sequences, FiniteSets, TLC

\* ------------------------------------------------------------ bounds
\* Public operations started on one AfcClient.
MaxOps == 2
\* Full-size (chunk_size) answers the device gives within one read_file.
MaxFullChunks == 1
\* Calls made on one HouseArrestClient.
MaxHaCalls == 2
\* Calls made on one NotificationProxyClient.
MaxNpCalls == 3
\* Calls made on one UsbmuxdConnection.
MaxMuxCalls == 2
\* Entries of the DeviceList of one ListDevices response.
MaxDevices == 2
\* NP frames the device emits on one connection.
MaxEmits == 2

\* ------------------------------------------------------- byte strings
Run(b, n) == [b |-> b, n |-> n]

RECURSIVE BLen(_)
\* Vec::len
BLen(bs) ==
    IF bs = <<>> THEN 0
    ELSE IF Len(bs) = 1 THEN bs[1].n
    ELSE BLen(SubSeq(bs, 1, Len(bs) \div 2))
           + BLen(SubSeq(bs, (Len(bs) \div 2) + 1, Len(bs)))

\* Vec::extend_from_slice: a followed by b
Cat(a, b) ==
    IF a = <<>> THEN b
    ELSE IF b = <<>> THEN a
    ELSE IF a[Len(a)].b = b[1].b
         THEN SubSeq(a, 1, Len(a) - 1)
                \o <<Run(b[1].b, a[Len(a)].n + b[1].n)>>
                \o Tail(b)
         ELSE a \o b

RECURSIVE Lit(_)
\* the byte string holding the bytes of the sequence s (built by halves)
Lit(s) ==
    IF s = <<>> THEN <<>>
    ELSE IF Len(s) = 1 THEN <<Run(s[1], 1)>>
    ELSE Cat(Lit(SubSeq(s, 1, Len(s) \div 2)),
             Lit(SubSeq(s, (Len(s) \div 2) + 1, Len(s))))

RECURSIVE Take(_, _)
\* &v[..k] (all of v when it is shorter)
Take(bs, k) ==
    IF k <= 0 \/ bs = <<>> THEN <<>>
    ELSE IF Len(bs) = 1
    THEN <<Run(bs[1].b, IF bs[1].n <= k THEN bs[1].n ELSE k)>>
    ELSE LET front == SubSeq(bs, 1, Len(bs) \div 2)
             back == SubSeq(bs, (Len(bs) \div 2) + 1, Len(bs))
         IN  IF k <= BLen(front) THEN Take(front, k)
             ELSE Cat(front, Take(back, k - BLen(front)))

RECURSIVE Drop(_, _)
\* &v[k..] (empty when v is shorter)
Drop(bs, k) ==
    IF bs = <<>> THEN <<>>
    ELSE IF k <= 0 THEN bs
    ELSE IF Len(bs) = 1
    THEN (IF bs[1].n <= k THEN <<>> ELSE <<Run(bs[1].b, bs[1].n - k)>>)
    ELSE LET front == SubSeq(bs, 1, Len(bs) \div 2)
             back == SubSeq(bs, (Len(bs) \div 2) + 1, Len(bs))
         IN  IF k >= BLen(front) THEN Drop(back, k - BLen(front))
             ELSE Drop(front, k) \o back

\* vec![0; n]
Zeros(n) == IF n = 0 THEN <<>> ELSE <<Run(0, n)>>

\* v[at .. at + src.len()].copy_from_slice(src)
CopyFromSlice(v, at, src) ==
    Cat(Cat(Take(v, at), src), Drop(v, at + BLen(src)))

RECURSIVE Bytes(_)
\* the bytes of a (short) byte string, one by one
Bytes(bs) ==
    IF bs = <<>> THEN <<>>
    ELSE IF Len(bs) = 1 THEN [i \in 1..bs[1].n |-> bs[1].b]
    ELSE Bytes(SubSeq(bs, 1, Len(bs) \div 2))
           \o Bytes(SubSeq(bs, (Len(bs) \div 2) + 1, Len(bs)))

\* ------------------------------------------------------ 64-bit words
\* Values stay below 2^31; the four high bytes of a word are then zero.
ByteOf(n, i) ==
    IF i = 0 THEN n % 256
    ELSE IF i = 1 THEN (n \div 256) % 256
    ELSE IF i = 2 THEN (n \div 65536) % 256
    ELSE IF i = 3 THEN (n \div 16777216) % 256
    ELSE 0

\* u64::to_le_bytes
to_le_bytes(n) == Lit([i \in 1..8 |-> ByteOf(n, i - 1)])

\* AsyncWriteExt::write_u64: tokio writes the word big-endian
write_u64(n) == Lit([i \in 1..8 |-> ByteOf(n, 8 - i)])

\* u64::from_le_bytes of the first 8 bytes of a response
from_le_bytes(bs) ==
    LET b == Bytes(Take(bs, 8))
    IN  b[1] + 256 * b[2] + 65536 * b[3] + 16777216 * b[4]

\* A u64 of any size, kept as its 8 bytes, least significant first (as
\* WordOf gives them): u64::from_le_bytes of the first 8 bytes of a
\* response, and u64::to_le_bytes
u64_from_le_bytes(bs) == Bytes(Take(bs, 8))
u64_to_le_bytes(word) == Lit(word)

\* No file handle was taken yet.
NoHandle == <<>>

\* Vec<u8>::split(|&b| b == 0) keeping the non-empty items
RECURSIVE NonEmptyItems(_, _)
NonEmptyItems(bs, cur) ==
    IF bs = <<>> THEN (IF cur = <<>> THEN <<>> ELSE <<cur>>)
    ELSE IF bs[1].b = 0
         THEN (IF cur = <<>> THEN <<>> ELSE <<cur>>) \o NonEmptyItems(Tail(bs), <<>>)
         ELSE NonEmptyItems(Tail(bs), cur \o <<bs[1]>>)

\* ------------------------------------------------------------- state
VARIABLES
    wire,         \* per socket, the frames written to it so far, in order
    afc_socket,   \* AfcClient.socket: "none" while no AfcClient exists
    packet_num,   \* AfcClient.packet_num
    pc,           \* where the AfcClient's running operation is suspended
    loc,          \* the local variables of that operation
    last_reply,   \* the reply receive_response consumed last in that operation
    result,       \* what the last finished AfcClient operation returned
    ops,          \* AfcClient operations started so far
    rlog,         \* per socket, the engine that consumed each reply read from it
    ha_socket,    \* HouseArrestClient.socket: "none" while no such client exists
    ha_state,     \* "ready", or "panicked" once a call on the client panicked
    ha_result,    \* what the last HouseArrestClient call returned, and to what reply
    ha_calls,     \* HouseArrestClient calls made so far
    mark,         \* the device stream's lengths when Complete arrived / at the hand-off
    extra_afc,    \* AfcClients handed out over a dummy socket (later hand-offs)
    np_rx,        \* NotificationProxyClient.notification_rx: a channel, 0 for None
    np_tx,        \* NotificationProxyClient.notification_tx: a channel, 0 for None
    np_in,        \* bytes the device sent on the socket that no task has read yet
    np_closed,    \* the device closed the connection
    np_read,      \* number of inbound bytes read so far, by whatever task
    emitted,      \* the NP frames the device emitted: name and offset in the stream
    readers,      \* the reader tasks spawned so far, in spawn order
    chans,        \* the mpsc channels created so far; a channel is its index
    listening,    \* a start_listening succeeded and no stop_listening followed
    np_result,    \* what the last NotificationProxyClient call returned
    np_calls,     \* NotificationProxyClient calls made so far
    mux_socket,   \* UsbmuxdConnection.socket: "none" once moved out or dropped
    mux_tag,      \* UsbmuxdConnection.tag
    mux_open,     \* the connection to the multiplexer is open (some owner holds it)
    idevice,      \* the Idevice connect_to_device returned: its socket, "none" if none
    mux_out,      \* the requests written to the multiplexer so far, in order
    mux_result,   \* what the last UsbmuxdConnection call returned, and to what
    mux_final,    \* requests written when connect_to_device returned; -1 before
    mux_loop,     \* get_devices inside `for dev in res.device_list`: its locals
    mux_calls,    \* UsbmuxdConnection calls made so far
    ss_pc,        \* where the ScreenshotClient stands: none, idle, reading
    ss_out,       \* the frames the ScreenshotClient wrote, in order
    ss_in,        \* the bytes the device sent it that are not read yet
    ss_sent,      \* the messages the device sent it, in order
    ss_reads,     \* the read_plist calls that read a whole frame
    ss_result,    \* what the last take_screenshot returned, and the plist read
    ss_calls,     \* take_screenshot calls made so far
    fr_pc,        \* where the FileRelayClient stands: none, idle, reading, length, data
    fr_out,       \* the frames the FileRelayClient wrote, in order
    fr_in,        \* the bytes the device sent it that are not read yet
    fr_sent,      \* the messages the device sent it, in order
    fr_reply,     \* the plist read_plist returned in the running (or last) call
    fr_length,    \* the blob length read in that call; -1 before
    fr_blob,      \* bytes that call consumed after the plist reply
    fr_result,    \* what the last request_files returned
    fr_calls,     \* request_files calls made so far
    dg_pc,        \* where the DiagnosticsClient stands: none, idle, reading
    dg_out,       \* the frames the DiagnosticsClient wrote, in order
    dg_in,        \* the bytes the device sent it that are not read yet
    dg_sent,      \* the replies the device sent it, in order
    dg_reply,     \* the plist read_plist returned in the running (or last) call
    dg_result,    \* what the last request_diagnostics returned
    dg_calls      \* request_diagnostics calls made so far

afcVars == <<afc_socket, packet_num, pc, loc, last_reply, result, ops>>
haVars == <<ha_socket, ha_state, ha_result, ha_calls, mark, extra_afc>>
npVars == <<np_rx, np_tx, np_in, np_closed, np_read, emitted, readers, chans,
            listening, np_result, np_calls>>
ssVars == <<ss_pc, ss_out, ss_in, ss_sent, ss_reads, ss_result, ss_calls>>
frVars == <<fr_pc, fr_out, fr_in, fr_sent, fr_reply, fr_length, fr_blob, fr_result,
           fr_calls>>
dgVars == <<dg_pc, dg_out, dg_in, dg_sent, dg_reply, dg_result, dg_calls>>
muxVars == <<mux_socket, mux_tag, mux_open, idevice, mux_out, mux_result, mux_final,
             mux_loop, mux_calls>>

\* ------------------------------------------------- AFC: wire format
Status == 1
Data == 2
ReadDir == 3
RemovePath == 8
MakeDir == 9
GetFileInfo == 10
GetDeviceInfo == 11
FileRefOpen == 13
FileRefRead == 14
FileRefWrite == 15
FileRefClose == 18
RenamePath == 22

\* let chunk_size = 65536 (read_file and write_file)
chunk_size == 65536

\* AfcPacketHeader::new
AfcPacketHeader_new(operation, data_length) ==
    [entire_length |-> 40 + data_length,
     this_length   |-> 40 + data_length,
     packet_num    |-> 0,
     operation     |-> operation]

\* AfcPacketHeader::serialize: five words, the last one reserved
serialize(h) ==
    Cat(Cat(Cat(Cat(write_u64(h.entire_length), write_u64(h.this_length)),
                write_u64(h.packet_num)),
            write_u64(h.operation)),
        write_u64(0))

\* AsyncReadExt::read_u64 on 8 bytes: tokio reads the word big-endian
read_u64_le(bs) ==
    LET b == Bytes(Take(bs, 8))
    IN  b[1] + 256 * b[2] + 65536 * b[3] + 16777216 * b[4]
read_u64(bs) ==
    LET b == Bytes(Take(bs, 8))
    IN  b[8] + 256 * b[7] + 65536 * b[6] + 16777216 * b[5]

\* AfcPacketHeader::deserialize on the 40 bytes of a header: five words,
\* the last one (_reserved) dropped
deserialize(bs) ==
    [entire_length |-> read_u64(bs),
     this_length   |-> read_u64(Drop(bs, 8)),
     packet_num    |-> read_u64(Drop(bs, 16)),
     operation     |-> read_u64(Drop(bs, 24))]

\* One frame on a socket: the engine that wrote it, the operation (or
\* command) it was written for, and its bytes.
Frame(engine, operation, bytes) ==
    [engine |-> engine, operation |-> operation, bytes |-> bytes]

\* path.as_bytes() copied into vec![0; len + 1]
PathData(path) == CopyFromSlice(Zeros(BLen(path) + 1), 0, path)

\* rename_path's payload: vec![0; from.len() + 1 + to.len() + 1], from at the
\* front, to from from.len() + 1 on
RenameData_unterminated(from_path, to_path) ==
    Cat(PathData(from_path), to_path)
RenameData(from_path, to_path) ==
    CopyFromSlice(CopyFromSlice(Zeros(BLen(from_path) + 1 + BLen(to_path) + 1),
                                0, from_path),
                  BLen(from_path) + 1, to_path)

\* read_file's FileRefOpen payload
ReadOpenData(path) == PathData(path)

\* write_file's FileRefOpen payload: vec![0; len + 1 + 8], the path at the
\* front, 3u64.to_le_bytes() from len + 1 on
WriteOpenData(path) ==
    CopyFromSlice(CopyFromSlice(Zeros(BLen(path) + 1 + 8), 0, path),
                  BLen(path) + 1, to_le_bytes(3))

\* FileRefRead payload: handle, then chunk_size
ReadData(file_handle) ==
    CopyFromSlice(CopyFromSlice(Zeros(8 + 8), 0, u64_to_le_bytes(file_handle)),
                  8, to_le_bytes(chunk_size))

\* FileRefWrite payload: handle, then the chunk
WriteData(file_handle, chunk) ==
    Cat(CopyFromSlice(Zeros(8), 0, u64_to_le_bytes(file_handle)), chunk)

\* FileRefClose payload
CloseData_no_handle(file_handle) == Zeros(8)
CloseData(file_handle) == u64_to_le_bytes(file_handle)

\* ---------------------------------------------- AFC: the device side
\* A reply as AfcPacketHeader::deserialize decodes it, with the bytes that
\* follow its header on the stream.
Reply(operation, data) ==
    [entire_length |-> 40 + BLen(data), operation |-> operation, data |-> data]

\* The read of the header or of the payload failed.
IoFailure == [entire_length |-> 0, operation |-> 0, data |-> <<>>]

NoReply == [entire_length |-> 0, operation |-> -1, data |-> <<>>]

FullChunk == <<Run(97, chunk_size)>>

DeviceReplies ==
    { Reply(Status, to_le_bytes(0)),      \* STATUS, success
      Reply(Status, to_le_bytes(8)),      \* STATUS, error code 8
      Reply(Data, to_le_bytes(5)),        \* 8 bytes: a handle
      Reply(Data, <<>>),                  \* no payload
      Reply(Data, <<Run(98, 1000)>>),     \* a short chunk: 1000 bytes
      Reply(Data, FullChunk) }            \* a chunk of chunk_size bytes

\* What the device answers a request that asks for no data: a STATUS.
AckReplies == { Reply(Status, to_le_bytes(0)), Reply(Status, to_le_bytes(8)) }

Paths == { Lit(<<47, 120>>) }

FileData == { <<>>, Lit(<<104, 105>>), FullChunk, Cat(FullChunk, Lit(<<104>>)) }

\* ------------------------------------------------ AFC: the operations
\* No operation has returned yet, or one is running.
NoResult == [op |-> "", ok |-> TRUE, err |-> "", val |-> <<>>]

Ok(op, val) == [op |-> op, ok |-> TRUE, err |-> "", val |-> val]
Err(op, err) == [op |-> op, ok |-> FALSE, err |-> err, val |-> <<>>]

Locals(op, path) ==
    [op |-> op, path |-> path, start |-> Len(wire[afc_socket]),
     rstart |-> Len(rlog[afc_socket]), file_handle |-> NoHandle,
     file_content |-> <<>>, input |-> <<>>, data |-> <<>>, fulls |-> 0, chunks |-> <<>>]

send_packet_uncounted(operation, data, ok) ==
    IF ok
    THEN /\ wire' = [wire EXCEPT ![afc_socket] =
                       Append(@, Frame("afc", operation,
                           Cat(serialize(AfcPacketHeader_new(operation, BLen(data))),
                               data)))]
         /\ UNCHANGED packet_num
    ELSE UNCHANGED <<wire, packet_num>>

\* AfcClient::send_packet; ok = FALSE: a write on the socket failed
send_packet(operation, data, ok) ==
    IF ok
    THEN /\ wire' = [wire EXCEPT ![afc_socket] =
                       Append(@, Frame("afc", operation,
                           Cat(serialize(AfcPacketHeader_new(operation, BLen(data))),
                               data)))]
         /\ packet_num' = packet_num + 1
    ELSE UNCHANGED <<wire, packet_num>>

\* AfcClient::receive_response: the payload, entire_length - 40 bytes long
receive_response(r) ==
    IF r.entire_length - 40 > 0 THEN Take(r.data, r.entire_length - 40) ELSE <<>>

\* send_packet(..).await? followed by the suspension in receive_response
SendAndAwait(operation, data, ok, next) ==
    /\ send_packet(operation, data, ok)
    /\ IF ok THEN pc' = next /\ result' = NoResult
             ELSE pc' = "idle" /\ result' = Err(loc'.op, "Io")

Return(res) ==
    /\ pc' = "idle"
    /\ result' = res
    /\ UNCHANGED <<wire, packet_num>>

Begin(op) ==
    /\ pc = "idle"
    /\ afc_socket # "none"
    /\ ops < MaxOps
    /\ ops' = ops + 1
    /\ last_reply' = NoReply
    /\ UNCHANGED <<afc_socket, rlog, haVars, npVars, muxVars, ssVars, frVars, dgVars>>

Resume(at, r) ==
    /\ pc = at
    /\ last_reply' = r
    /\ rlog' = IF r = IoFailure THEN rlog
               ELSE [rlog EXCEPT ![afc_socket] = Append(@, "afc")]
    /\ UNCHANGED <<afc_socket, ops, haVars, npVars, muxVars, ssVars, frVars, dgVars>>

\* read_directory, up to the suspension in receive_response
read_directory_call ==
    \E path \in Paths, ok \in BOOLEAN :
        /\ Begin("read_directory")
        /\ loc' = Locals("read_directory", path)
        /\ SendAndAwait(ReadDir, PathData(path), ok, "rd_recv")

\* read_directory, from the response on
read_directory_recv ==
    \E r \in DeviceReplies \cup {IoFailure} :
        /\ Resume("rd_recv", r)
        /\ UNCHANGED loc
        /\ IF r = IoFailure
           THEN Return(Err("read_directory", "Io"))
           ELSE Return(Ok("read_directory", NonEmptyItems(receive_response(r), <<>>)))

\* read_file, up to the response to FileRefOpen
read_file_call ==
    \E path \in Paths, ok \in BOOLEAN :
        /\ Begin("read_file")
        /\ loc' = Locals("read_file", path)
        /\ SendAndAwait(FileRefOpen, ReadOpenData(path), ok, "rf_open")

\* read_file: the response to FileRefOpen, then the first FileRefRead
read_file_opened ==
    \E r \in DeviceReplies \cup {IoFailure}, ok \in BOOLEAN :
        /\ Resume("rf_open", r)
        /\ IF r = IoFailure
           THEN UNCHANGED loc /\ Return(Err("read_file", "Io"))
           ELSE LET response == receive_response(r) IN
                IF BLen(response) < 8
                THEN UNCHANGED loc /\ Return(Err("read_file", "AfcError"))
                ELSE /\ loc' = [loc EXCEPT !.file_handle = u64_from_le_bytes(response),
                                           !.file_content = <<>>]
                     /\ SendAndAwait(FileRefRead, ReadData(loc'.file_handle), ok, "rf_read")

\* if chunk.len() < chunk_size as usize { break; }
short_chunk_never(chunk) == FALSE
short_chunk(chunk) == BLen(chunk) < chunk_size

\* read_file: one response to FileRefRead, then the next FileRefRead or,
\* after the loop, FileRefClose; loc.chunks keeps the responses of the loop
read_file_chunk ==
    \E r \in DeviceReplies \cup {IoFailure}, ok \in BOOLEAN :
        /\ Resume("rf_read", r)
        /\ (r.data = FullChunk => loc.fulls < MaxFullChunks)
        /\ IF r = IoFailure
           THEN UNCHANGED loc /\ Return(Err("read_file", "Io"))
           ELSE LET chunk == receive_response(r) IN
                IF chunk = <<>>
                THEN /\ loc' = [loc EXCEPT !.chunks = Append(@, chunk)]
                     /\ SendAndAwait(FileRefClose, CloseData(loc.file_handle), ok, "rf_close")
                ELSE /\ loc' = [loc EXCEPT !.file_content = Cat(@, chunk),
                                           !.chunks = Append(@, chunk),
                                           !.fulls = IF r.data = FullChunk THEN @ + 1 ELSE @]
                     /\ IF short_chunk(chunk)
                        THEN SendAndAwait(FileRefClose, CloseData(loc.file_handle), ok, "rf_close")
                        ELSE SendAndAwait(FileRefRead, ReadData(loc.file_handle), ok, "rf_read")

\* read_file: the response to FileRefClose
read_file_closed ==
    \E r \in DeviceReplies \cup {IoFailure} :
        /\ Resume("rf_close", r)
        /\ UNCHANGED loc
        /\ IF r = IoFailure
           THEN Return(Err("read_file", "Io"))
           ELSE Return(Ok("read_file", loc.file_content))

\* data.chunks(chunk_size): the next chunk of what is left of data
next_chunk_whole(data) == data
next_chunk(data) == Take(data, chunk_size)

\* write_file: the next step of `for chunk in data.chunks(chunk_size)`, or
\* FileRefClose after the last chunk; loc.data is what is left of data
WriteNext(l, ok) ==
    IF l.data = <<>>
    THEN /\ loc' = l
         /\ SendAndAwait(FileRefClose, CloseData(l.file_handle), ok, "wf_close")
    ELSE /\ loc' = [l EXCEPT !.data = Drop(@, BLen(next_chunk(l.data)))]
         /\ SendAndAwait(FileRefWrite, WriteData(l.file_handle, next_chunk(l.data)),
                         ok, "wf_write")

\* write_file, up to the response to FileRefOpen
write_file_call ==
    \E path \in Paths, data \in FileData, ok \in BOOLEAN :
        /\ Begin("write_file")
        /\ loc' = [Locals("write_file", path) EXCEPT !.input = data, !.data = data]
        /\ SendAndAwait(FileRefOpen, WriteOpenData(path), ok, "wf_open")

\* write_file: the response to FileRefOpen, then the first chunk
write_file_opened ==
    \E r \in DeviceReplies \cup {IoFailure}, ok \in BOOLEAN :
        /\ Resume("wf_open", r)
        /\ IF r = IoFailure
           THEN UNCHANGED loc /\ Return(Err("write_file", "Io"))
           ELSE LET response == receive_response(r) IN
                IF BLen(response) < 8
                THEN UNCHANGED loc /\ Return(Err("write_file", "AfcError"))
                ELSE WriteNext([loc EXCEPT !.file_handle = u64_from_le_bytes(response)], ok)

\* write_file: the response to one FileRefWrite, then the next chunk
write_file_chunk ==
    \E r \in AckReplies \cup {IoFailure}, ok \in BOOLEAN :
        /\ Resume("wf_write", r)
        /\ IF r = IoFailure
           THEN UNCHANGED loc /\ Return(Err("write_file", "Io"))
           ELSE WriteNext(loc, ok)

\* write_file: the response to FileRefClose
write_file_closed ==
    \E r \in AckReplies \cup {IoFailure} :
        /\ Resume("wf_close", r)
        /\ UNCHANGED loc
        /\ IF r = IoFailure
           THEN Return(Err("write_file", "Io"))
           ELSE Return(Ok("write_file", <<>>))

\* ------------------------------------------------ AFC: cancellation
\* How many bytes of a request send_packet has written when the future of
\* the operation is dropped while a write_u64 of serialize or the write_all
\* of the payload is pending: none, one header word, three, the whole
\* header, the header and one payload byte.
WrittenAtDrop == {0, 8, 24, 40, 41}

\* AfcClient::send_packet dropped after `written` bytes: they stay on the
\* socket, the rest is never written and packet_num += 1 is not reached
send_packet_dropped(operation, data, written) ==
    /\ wire' = IF written = 0 THEN wire
               ELSE [wire EXCEPT ![afc_socket] =
                       Append(@, Frame("afc", operation,
                           Take(Cat(serialize(AfcPacketHeader_new(operation, BLen(data))),
                                    data),
                                written)))]
    /\ UNCHANGED packet_num

\* read_directory whose future is dropped inside send_packet: nothing is
\* returned, the AfcClient and its socket live on
read_directory_cancelled ==
    \E path \in Paths, written \in WrittenAtDrop :
        /\ Begin("read_directory")
        /\ loc' = Locals("read_directory", path)
        /\ send_packet_dropped(ReadDir, PathData(path), written)
        /\ pc' = "idle"
        /\ result' = Err("read_directory", "Cancelled")

\* An operation whose future is dropped while it is suspended in
\* receive_response, before any byte of the response was read
receive_response_cancelled ==
    /\ pc \notin {"idle", "panicked"}
    /\ pc' = "idle"
    /\ result' = Err(loc.op, "Cancelled")
    /\ UNCHANGED <<wire, rlog, afc_socket, packet_num, loc, last_reply, ops,
                   haVars, npVars, muxVars, ssVars, frVars, dgVars>>

\* ------------------------------------------- AFC: a malformed response
\* The 8 bytes of a u64 below 2^31, least significant first.
WordOf(n) == [i \in 1..8 |-> ByteOf(n, i - 1)]

\* a - b on unsigned words of one width, given as their bytes, least
\* significant first: the difference modulo 2^width, and the borrow out of
\* the most significant byte
RECURSIVE sub_bytes(_, _, _)
sub_bytes(a, b, borrow) ==
    IF a = <<>> THEN [bytes |-> <<>>, borrow |-> borrow]
    ELSE LET d == a[1] - b[1] - borrow
             rest == sub_bytes(Tail(a), Tail(b), IF d < 0 THEN 1 ELSE 0)
         IN  [bytes |-> <<(d + 256) % 256>> \o rest.bytes, borrow |-> rest.borrow]

\* Whether the build checks integer overflow (debug) or wraps (release).
overflow_checks == BOOLEAN

\* Responses whose header gives an entire_length below the 40 bytes of the
\* header itself.
MalformedReplies ==
    { [entire_length |-> n, operation |-> Data, data |-> <<>>] : n \in {0, 39} }

\* let data_length = (header.entire_length - 40) as usize; vec![0; data_length]
\* for an entire_length below 40: the subtraction panics when overflow is
\* checked and wraps otherwise; the wrapped length is above isize::MAX
\* (its top bit is set), on which vec! panics.
data_length_failure(r, checks) ==
    LET d == sub_bytes(WordOf(r.entire_length), WordOf(40), 0) IN
    IF d.borrow = 1 /\ checks THEN "PanicSubtractOverflow"
    ELSE IF d.bytes[8] >= 128 THEN "PanicCapacityOverflow"
    ELSE "Io"

\* The same two lines for an entire_length given as the 8 bytes of the word,
\* least significant first. A length of 2^48 bytes or more, below
\* isize::MAX, is more than any address space holds: the allocation fails
\* and the process aborts.
data_length_outcome(word, checks) ==
    LET d == sub_bytes(word, WordOf(40), 0) IN
    IF d.borrow = 1 /\ checks THEN "PanicSubtractOverflow"
    ELSE IF d.bytes[8] >= 128 THEN "PanicCapacityOverflow"
    ELSE IF d.bytes[7] # 0 \/ d.bytes[8] # 0 THEN "AllocError"
    ELSE "Readable"

\* receive_response on such a header, in whatever operation is suspended in
\* it: the header is consumed and the operation panics
receive_response_malformed ==
    \E r \in MalformedReplies, checks \in overflow_checks :
        /\ pc \notin {"idle", "panicked"}
        /\ Resume(pc, r)
        /\ pc' = "panicked"
        /\ result' = Err(loc.op, data_length_failure(r, checks))
        /\ UNCHANGED <<loc, wire, packet_num>>

\* --------------------------- AFC: a device that follows the protocol
\* Word k of a header as the protocol lays it out, least significant byte
\* first; it is in range when its four high bytes are zero.
le_word(bs, k) == read_u64_le(Drop(bs, 8 * k))
le_word_in_range(bs, k) == Take(Drop(bs, 8 * k + 4), 4) = Zeros(4)

\* The request is a header of the protocol followed by its payload.
le_header_ok(request) ==
    /\ BLen(request) >= 40
    /\ \A k \in 0..4 : le_word_in_range(request, k)
    /\ le_word(request, 0) = BLen(request)
    /\ le_word(request, 1) = BLen(request)
    /\ le_word(request, 4) = 0

\* A response of the device: the header, little-endian, then the payload.
le_response(operation, data) ==
    Cat(Cat(Cat(Cat(Cat(to_le_bytes(40 + BLen(data)), to_le_bytes(40 + BLen(data))),
                    to_le_bytes(0)),
                to_le_bytes(operation)),
            to_le_bytes(0)),
        data)

\* A STATUS response with an error code of the AFC table.
le_status(kind) ==
    le_response(Status,
                to_le_bytes(CASE kind = "success"           -> 0
                              [] kind = "op header invalid" -> 2
                              [] kind = "invalid arg"       -> 7
                              [] kind = "not found"         -> 8
                              [] OTHER                      -> 1))

\* The device's files (path to content) and the handles it gave out.
NoFiles == [files |-> <<>>, handles |-> <<>>]

StoreFile(files, path, content) ==
    [q \in (DOMAIN files) \cup {path} |-> IF q = path THEN content ELSE files[q]]

HandleOpen(st, h) == h \in 1..Len(st.handles) /\ st.handles[h].open

\* FILE_REF_OPEN: mode, then the path and its NUL. Mode 1 reads a file that
\* exists; mode 3 creates the file or empties it.
device_open(st, payload) ==
    IF BLen(payload) < 10 \/ Drop(payload, BLen(payload) - 1) # Zeros(1)
    THEN [st |-> st, reply |-> le_status("invalid arg")]
    ELSE LET mode == from_le_bytes(payload)
             path == Take(Drop(payload, 8), BLen(payload) - 9)
             h == [path |-> path, pos |-> 0, open |-> TRUE]
         IN  IF ~le_word_in_range(payload, 0) \/ mode \notin {1, 3}
             THEN [st |-> st, reply |-> le_status("invalid arg")]
             ELSE IF mode = 1 /\ path \notin DOMAIN st.files
             THEN [st |-> st, reply |-> le_status("not found")]
             ELSE [st |-> [files |-> IF mode = 3 THEN StoreFile(st.files, path, <<>>)
                                     ELSE st.files,
                           handles |-> Append(st.handles, h)],
                   reply |-> le_response(Data, to_le_bytes(Len(st.handles) + 1))]

\* FILE_REF_WRITE: handle, then the data, written at the handle's position
device_write(st, payload) ==
    LET h == from_le_bytes(payload)
        data == Drop(payload, 8)
    IN  IF BLen(payload) < 8 \/ ~HandleOpen(st, h)
        THEN [st |-> st, reply |-> le_status("invalid arg")]
        ELSE LET at == st.handles[h]
                 old == st.files[at.path]
             IN  [st |-> [files |-> StoreFile(st.files, at.path,
                                       Cat(Cat(Take(old, at.pos), data),
                                           Drop(old, at.pos + BLen(data)))),
                          handles |-> [st.handles EXCEPT ![h].pos = @ + BLen(data)]],
                  reply |-> le_status("success")]

\* FILE_REF_READ: handle, then the length asked for
device_read(st, payload) ==
    LET h == from_le_bytes(payload)
        length == from_le_bytes(Drop(payload, 8))
    IN  IF BLen(payload) # 16 \/ ~HandleOpen(st, h)
        THEN [st |-> st, reply |-> le_status("invalid arg")]
        ELSE LET at == st.handles[h]
                 chunk == Take(Drop(st.files[at.path], at.pos), length)
             IN  [st |-> [st EXCEPT !.handles[h].pos = @ + BLen(chunk)],
                  reply |-> le_response(Data, chunk)]

\* FILE_REF_CLOSE: handle
device_close_handle(st, payload) ==
    LET h == from_le_bytes(payload)
    IN  IF BLen(payload) # 8 \/ ~HandleOpen(st, h)
        THEN [st |-> st, reply |-> le_status("invalid arg")]
        ELSE [st |-> [st EXCEPT !.handles[h].open = FALSE],
              reply |-> le_status("success")]

\* One request: the device's state after it, and its response.
device_step(st, request) ==
    IF ~le_header_ok(request)
    THEN [st |-> st, reply |-> le_status("op header invalid")]
    ELSE LET operation == le_word(request, 3)
             payload == Drop(request, 40)
         IN  CASE operation = FileRefOpen  -> device_open(st, payload)
               [] operation = FileRefWrite -> device_write(st, payload)
               [] operation = FileRefRead  -> device_read(st, payload)
               [] operation = FileRefClose -> device_close_handle(st, payload)
               [] OTHER -> [st |-> st, reply |-> le_status("invalid operation")]

\* The device after the requests of a session, and its response to the
\* last of them.
RECURSIVE device_after(_)
device_after(requests) ==
    IF requests = <<>> THEN [st |-> NoFiles, reply |-> <<>>]
    ELSE device_step(device_after(SubSeq(requests, 1, Len(requests) - 1)).st,
                     requests[Len(requests)].bytes)

\* The first word of a response the way deserialize reads it (read_u64
\* takes the first byte as the most significant), least significant first.
be_word(bs) == [i \in 1..8 |-> Bytes(Take(bs, 8))[9 - i]]

\* receive_response on the device's response to the request just sent,
\* when the entire_length it reads cannot be allocated: the header is
\* consumed, the payload is not, and the process panics or aborts
receive_response_aborts ==
    \E checks \in overflow_checks :
        LET reply == device_after(wire[afc_socket]).reply
            outcome == data_length_outcome(be_word(reply), checks)
        IN  /\ pc \notin {"idle", "panicked"}
            /\ outcome # "Readable"
            /\ Resume(pc, [entire_length |-> read_u64(reply),
                           operation |-> read_u64(Drop(reply, 24)),
                           data |-> Drop(reply, 40)])
            /\ pc' = "panicked"
            /\ result' = Err(loc.op, outcome)
            /\ UNCHANGED <<loc, wire, packet_num>>

\* The device ends the session instead of answering (it may also never
\* answer, until the caller drops the operation: receive_response_cancelled);
\* read_exact in receive_response fails.
receive_response_closed ==
    /\ pc \notin {"idle", "panicked"}
    /\ Resume(pc, IoFailure)
    /\ Return(Err(loc.op, "Io"))
    /\ UNCHANGED loc

\* ------------------------------------- AFC: the path and info operations
\* response.split(|&b| b == 0) on the bytes of a response: every item, the
\* empty ones too ("a\0" gives "a" and ""; "" gives one empty item)
RECURSIVE split(_, _)
split(bytes, cur) ==
    IF bytes = <<>> THEN <<cur>>
    ELSE IF bytes[1] = 0 THEN <<cur>> \o split(Tail(bytes), <<>>)
    ELSE split(Tail(bytes), Append(cur, bytes[1]))

\* HashMap::insert on a map kept as a set of <<key, value>> pairs
insert(info, k, v) == { p \in info : p[1] # k } \cup { <<k, v>> }

\* The loop of get_device_info and get_file_info over the enumerated items
\* from item i (0-based) on: empty items are skipped (`continue`), an item
\* at an even index becomes the key, one at an odd index is inserted under
\* the key taken (key.take()); key = <<>> stands for None.
RECURSIVE info_loop(_, _, _, _)
info_loop(items, i, key, info) ==
    IF i >= Len(items) THEN info
    ELSE LET item == items[i + 1] IN
         IF item = <<>> THEN info_loop(items, i + 1, key, info)
         ELSE IF i % 2 = 0 THEN info_loop(items, i + 1, item, info)
         ELSE IF key # <<>> THEN info_loop(items, i + 1, <<>>, insert(info, key, item))
         ELSE info_loop(items, i + 1, key, info)

\* The HashMap get_device_info and get_file_info build from a response
parse_info(response) == info_loop(split(Bytes(response), <<>>), 0, <<>>, {})

\* Info responses of the device: key, NUL, value, NUL, ... (k = 107,
\* l = 108, m = 109, v = 118, w = 119, x = 120)
InfoReplies ==
    { Reply(Data, <<>>),
      Reply(Data, Lit(<<107, 0, 118, 0>>)),
      Reply(Data, Lit(<<107, 0, 118, 0, 108, 0, 119, 0, 0>>)),
      Reply(Data, Lit(<<107, 0, 118, 0, 0, 0, 108, 0, 119, 0>>)),
      Reply(Data, Lit(<<107, 0, 118, 0, 0, 108, 0, 119, 0>>)),
      Reply(Data, Lit(<<107, 0, 118, 0, 108, 0, 0, 109, 0, 120, 0>>)),
      Reply(Data, Lit(<<107, 0, 118, 0, 108>>)) }

\* The paths the path operations are called with; none holds a NUL.
PathArgs == { <<>>, Lit(<<47, 120>>), Lit(<<47, 47, 121>>) }

\* get_device_info, up to the suspension in receive_response
get_device_info_call ==
    \E ok \in BOOLEAN :
        /\ Begin("get_device_info")
        /\ loc' = Locals("get_device_info", <<>>)
        /\ SendAndAwait(GetDeviceInfo, <<>>, ok, "gdi_recv")

\* get_device_info, from the response on
get_device_info_recv ==
    \E r \in InfoReplies \cup {IoFailure} :
        /\ Resume("gdi_recv", r)
        /\ UNCHANGED loc
        /\ IF r = IoFailure
           THEN Return(Err("get_device_info", "Io"))
           ELSE Return(Ok("get_device_info", parse_info(receive_response(r))))

\* get_file_info, up to the suspension in receive_response
get_file_info_call ==
    \E path \in PathArgs, ok \in BOOLEAN :
        /\ Begin("get_file_info")
        /\ loc' = Locals("get_file_info", path)
        /\ SendAndAwait(GetFileInfo, PathData(path), ok, "gfi_recv")

\* get_file_info, from the response on
get_file_info_recv ==
    \E r \in InfoReplies \cup {IoFailure} :
        /\ Resume("gfi_recv", r)
        /\ UNCHANGED loc
        /\ IF r = IoFailure
           THEN Return(Err("get_file_info", "Io"))
           ELSE Return(Ok("get_file_info", parse_info(receive_response(r))))

\* make_directory, up to the suspension in receive_response
make_directory_call ==
    \E path \in PathArgs, ok \in BOOLEAN :
        /\ Begin("make_directory")
        /\ loc' = Locals("make_directory", path)
        /\ SendAndAwait(MakeDir, PathData(path), ok, "md_recv")

\* make_directory, from the response on: `let _ = ..?`
make_directory_recv ==
    \E r \in AckReplies \cup {IoFailure} :
        /\ Resume("md_recv", r)
        /\ UNCHANGED loc
        /\ IF r = IoFailure
           THEN Return(Err("make_directory", "Io"))
           ELSE Return(Ok("make_directory", <<>>))

\* remove_path, up to the suspension in receive_response
remove_path_call ==
    \E path \in PathArgs, ok \in BOOLEAN :
        /\ Begin("remove_path")
        /\ loc' = Locals("remove_path", path)
        /\ SendAndAwait(RemovePath, PathData(path), ok, "rp_recv")

\* remove_path, from the response on
remove_path_recv ==
    \E r \in AckReplies \cup {IoFailure} :
        /\ Resume("rp_recv", r)
        /\ UNCHANGED loc
        /\ IF r = IoFailure
           THEN Return(Err("remove_path", "Io"))
           ELSE Return(Ok("remove_path", <<>>))

\* rename_path, up to the suspension in receive_response; loc.data keeps
\* to_path
rename_path_call ==
    \E from_path \in PathArgs, to_path \in PathArgs, ok \in BOOLEAN :
        /\ Begin("rename_path")
        /\ loc' = [Locals("rename_path", from_path) EXCEPT !.data = to_path]
        /\ SendAndAwait(RenamePath, RenameData(from_path, to_path), ok, "rn_recv")

\* rename_path, from the response on
rename_path_recv ==
    \E r \in AckReplies \cup {IoFailure} :
        /\ Resume("rn_recv", r)
        /\ UNCHANGED loc
        /\ IF r = IoFailure
           THEN Return(Err("rename_path", "Io"))
           ELSE Return(Ok("rename_path", <<>>))

\* ------------------------------------------------- plist XML text
\* A plist::Dictionary is the sequence of its entries in insertion order,
\* each <<key, value>>; texts and data are sequences of bytes.
PString(s) == [t |-> "string", v |-> s]
PData(b) == [t |-> "data", v |-> b]

\* The markup, with the element names cut to one letter: "<?xml>" for the
\* declaration, D for dict, k for key, s for string, b for data.
XmlDecl == <<60, 63, 120, 109, 108, 62>>
Tag(c) == <<60, c, 62>>
EndTag(c) == <<60, 47, c, 62>>

StartsWith(s, prefix) ==
    Len(s) >= Len(prefix) /\ SubSeq(s, 1, Len(prefix)) = prefix
After(s, n) == SubSeq(s, n + 1, Len(s))

\* The XML writer escapes the markup characters of a text: & < >
RECURSIVE escape(_)
escape(s) ==
    IF s = <<>> THEN <<>>
    ELSE (CASE s[1] = 38 -> <<38, 97, 109, 112, 59>>
            [] s[1] = 60 -> <<38, 108, 116, 59>>
            [] s[1] = 62 -> <<38, 103, 116, 59>>
            [] OTHER     -> <<s[1]>>) \o escape(Tail(s))

\* Data is written as text (base64 in the crate; here two digits a byte,
\* 0..9 then A..F).
Digit(d) == IF d < 10 THEN 48 + d ELSE 55 + d
DigitValue(c) == IF c >= 48 /\ c <= 57 THEN c - 48
                 ELSE IF c >= 65 /\ c <= 70 THEN c - 55 ELSE -1

RECURSIVE data_text(_)
data_text(b) ==
    IF b = <<>> THEN <<>>
    ELSE <<Digit(b[1] \div 16), Digit(b[1] % 16)>> \o data_text(Tail(b))

\* An array of strings (element a); the reader below knows no arrays, no
\* reply the clients look into holds one.
PArray(items) == [t |-> "array", v |-> items]

RECURSIVE strings_xml(_)
strings_xml(items) ==
    IF items = <<>> THEN <<>>
    ELSE Tag(115) \o escape(items[1]) \o EndTag(115) \o strings_xml(Tail(items))

value_xml(v) ==
    IF v.t = "string" THEN Tag(115) \o escape(v.v) \o EndTag(115)
    ELSE IF v.t = "array" THEN Tag(97) \o strings_xml(v.v) \o EndTag(97)
    ELSE Tag(98) \o data_text(v.v) \o EndTag(98)

RECURSIVE entries_xml(_)
entries_xml(dict) ==
    IF dict = <<>> THEN <<>>
    ELSE Tag(107) \o escape(dict[1][1]) \o EndTag(107) \o value_xml(dict[1][2])
           \o entries_xml(Tail(dict))

\* plist::to_format_xml(&dict), then into_bytes()
to_format_xml(dict) ==
    Lit(XmlDecl \o Tag(68) \o entries_xml(dict) \o EndTag(68))

\* What the reader returns: a dictionary, or the bytes are no plist.
NoPlist == [ok |-> FALSE, dict |-> <<>>]
Parsed(dict) == [ok |-> TRUE, dict |-> dict]

\* The text up to the next "<", its escapes undone: [ok, text, rest]
RECURSIVE read_text(_, _)
read_text(s, acc) ==
    IF s = <<>> THEN [ok |-> FALSE, text |-> acc, rest |-> s]
    ELSE IF s[1] = 60 THEN [ok |-> TRUE, text |-> acc, rest |-> s]
    ELSE IF s[1] = 38
    THEN IF StartsWith(s, <<38, 97, 109, 112, 59>>)
         THEN read_text(After(s, 5), Append(acc, 38))
         ELSE IF StartsWith(s, <<38, 108, 116, 59>>)
         THEN read_text(After(s, 4), Append(acc, 60))
         ELSE IF StartsWith(s, <<38, 103, 116, 59>>)
         THEN read_text(After(s, 4), Append(acc, 62))
         ELSE [ok |-> FALSE, text |-> acc, rest |-> s]
    ELSE read_text(Tail(s), Append(acc, s[1]))

\* The bytes a data text stands for; <<-1>> when it is no data text
RECURSIVE text_data(_)
text_data(t) ==
    IF t = <<>> THEN <<>>
    ELSE IF Len(t) < 2 \/ DigitValue(t[1]) < 0 \/ DigitValue(t[2]) < 0 THEN <<-1>>
    ELSE LET rest == text_data(After(t, 2)) IN
         IF rest = <<-1>> THEN rest
         ELSE <<16 * DigitValue(t[1]) + DigitValue(t[2])>> \o rest

\* One element <c>text</c> at the front of s: [ok, text, rest]
read_element(s, c) ==
    IF ~StartsWith(s, Tag(c)) THEN [ok |-> FALSE, text |-> <<>>, rest |-> s]
    ELSE LET t == read_text(After(s, 3), <<>>) IN
         IF t.ok /\ StartsWith(t.rest, EndTag(c))
         THEN [ok |-> TRUE, text |-> t.text, rest |-> After(t.rest, 4)]
         ELSE [ok |-> FALSE, text |-> <<>>, rest |-> s]

\* The entries of a dict, up to and with its end tag
RECURSIVE read_entries(_, _)
read_entries(s, dict) ==
    IF s = EndTag(68) THEN Parsed(dict)
    ELSE LET k == read_element(s, 107) IN
         IF ~k.ok THEN NoPlist
         ELSE LET str == read_element(k.rest, 115)
                  dat == read_element(k.rest, 98)
              IN  IF str.ok
                  THEN read_entries(str.rest, Append(dict, <<k.text, PString(str.text)>>))
                  ELSE IF dat.ok /\ text_data(dat.text) # <<-1>>
                  THEN read_entries(dat.rest,
                                    Append(dict, <<k.text, PData(text_data(dat.text))>>))
                  ELSE NoPlist

\* plist::from_bytes(&data) for a plist::Dictionary
from_bytes(data) ==
    LET s == Bytes(data) IN
    IF StartsWith(s, XmlDecl \o Tag(68))
    THEN read_entries(After(s, 9), <<>>)
    ELSE NoPlist

\* ------------------------------------------------------ House Arrest
\* u32::to_be_bytes
to_be_bytes(n) == Lit([i \in 1..4 |-> ByteOf(n, 4 - i)])

\* The command names as bytes (their initials stand for the text).
CommandBytes(command) ==
    CASE command = "VendDocuments"    -> Lit(<<86, 68>>)
      [] command = "VendContainer"    -> Lit(<<86, 67>>)
      [] command = "ListApplications" -> Lit(<<76, 65>>)
      [] command = "Lookup"           -> Lit(<<76>>)

\* The dictionary send_command builds: Command, then Identifier (the keys
\* are written C and I)
CommandDict(command, bundle_id) ==
    << <<(<<67>>), PString(Bytes(CommandBytes(command)))>>,
       <<(<<73>>), PString(Bytes(bundle_id))>> >>

\* What send_command (house_arrest) and send_plist (screenshot) write for
\* the XML xml_bytes: the length, 32 bits big-endian, then the XML
plist_frame_counting_prefix(xml_bytes) ==
    Cat(to_be_bytes(BLen(xml_bytes) + 4), xml_bytes)
plist_frame(xml_bytes) ==
    Cat(to_be_bytes(BLen(xml_bytes)), xml_bytes)

\* The frame send_command writes
PlistFrame(command, bundle_id) ==
    plist_frame(to_format_xml(CommandDict(command, bundle_id)))

BundleIds == { Lit(<<97>>), Lit(<<97, 60, 38>>) }

\* The frame of every command and identifier the calls send, computed once.
PlistFrames ==
    [command \in {"VendDocuments", "VendContainer", "ListApplications", "Lookup"} |->
        [bundle_id \in BundleIds \cup {<<>>} |-> PlistFrame(command, bundle_id)]]

\* plist values of a reply dictionary, as far as the client looks at them
Absent == [t |-> "absent", v |-> ""]
Str(v) == [t |-> "string", v |-> v]
Other == [t |-> "other", v |-> ""]

Dict(error, status, application_list, lookup_result) ==
    [Error |-> error, Status |-> status,
     ApplicationList |-> application_list, LookupResult |-> lookup_result]

\* What read_plist can return: a dictionary, or the read or the parse failed.
NoDict == [Error |-> Other, Status |-> Other,
           ApplicationList |-> Other, LookupResult |-> Other]

PlistReplies ==
    { Dict(Absent, Str("Complete"), Absent, Absent),
      Dict(Str("ApplicationLookupFailed"), Absent, Absent, Absent),
      Dict(Absent, Str("Busy"), Absent, Absent),
      Dict(Absent, Absent, Absent, Absent),
      Dict(Absent, Absent, Other, Other) }

\* Value::as_string().unwrap_or(default)
as_string_or(value, default) == IF value.t = "string" THEN value.v ELSE default

\* HouseArrestClient::check_result on the dictionary read_plist returned
check_result(d) ==
    IF d = NoDict THEN "Io"
    ELSE IF d.Error.t # "absent" THEN "HouseArrestError"
    ELSE IF d.Status.t # "absent"
         THEN (IF as_string_or(d.Status, "") # "Complete"
               THEN "HouseArrestError" ELSE "")
         ELSE "HouseArrestError"

\* HouseArrestClient::send_command; ok = FALSE: a write on the socket failed
send_command(command, bundle_id, ok) ==
    IF ok
    THEN wire' = [wire EXCEPT ![ha_socket] =
                    Append(@, Frame("house_arrest", command,
                                    PlistFrames[command][bundle_id]))]
    ELSE UNCHANGED wire

\* std::mem::replace(&mut self.socket, <the dummy connection>): the socket
\* the new AfcClient gets, and the one the HouseArrestClient keeps
mem_replace_shared == [afc |-> ha_socket, house_arrest |-> ha_socket]
mem_replace_swapped == [afc |-> "dummy", house_arrest |-> ha_socket]
mem_replace == [afc |-> ha_socket, house_arrest |-> "dummy"]

HaResult(op, ok, err, reply, from) ==
    [op |-> op, ok |-> ok, err |-> err, reply |-> reply, from |-> from]

HaBegin ==
    /\ UNCHANGED <<npVars, muxVars, ssVars, frVars, dgVars>>
    /\ ha_socket # "none"
    /\ ha_state = "ready"
    /\ ha_calls < MaxHaCalls
    /\ ha_calls' = ha_calls + 1

\* The read_plist of a call: the reply is consumed from the client's socket.
HaRead == rlog' = [rlog EXCEPT ![ha_socket] = Append(@, "house_arrest")]

\* documents / container: the command, the reply, the hand-off to AFC.
\* connected = FALSE: TcpStream::connect("0.0.0.0:0") failed and unwrap panics.
Vend(op, command, bundle_id, ok, reply, connected) ==
        /\ send_command(command, bundle_id, ok)
        /\ IF ~ok
           THEN /\ ha_result' = HaResult(op, FALSE, "Io", NoDict, ha_socket)
                /\ UNCHANGED <<rlog, ha_socket, ha_state, mark, extra_afc, afcVars>>
           ELSE /\ HaRead
                /\ IF check_result(reply) # ""
                   THEN /\ ha_result' = HaResult(op, FALSE, check_result(reply),
                                                 reply, ha_socket)
                        /\ UNCHANGED <<ha_socket, ha_state, mark, extra_afc, afcVars>>
                   ELSE IF ~connected
                   THEN /\ ha_result' = HaResult(op, FALSE, "panic", reply, ha_socket)
                        /\ ha_state' = "panicked"
                        /\ mark' = IF ha_socket = "device" /\ mark.complete = -1
                                   THEN [mark EXCEPT !.complete = Len(wire'["device"])]
                                   ELSE mark
                        /\ UNCHANGED <<ha_socket, extra_afc, afcVars>>
                   ELSE /\ ha_result' = HaResult(op, TRUE, "", reply, ha_socket)
                        /\ ha_socket' = mem_replace.house_arrest
                        /\ ha_state' = "ready"
                        /\ IF afc_socket = "none"
                           THEN /\ afc_socket' = mem_replace.afc
                                /\ packet_num' = 0
                                /\ mark' = IF ha_socket = "device"
                                           THEN [complete |-> Len(wire'["device"]),
                                                 reads |-> Len(rlog'["device"])]
                                           ELSE mark
                                /\ UNCHANGED <<pc, loc, last_reply, result, ops, extra_afc>>
                           ELSE /\ extra_afc' = extra_afc + 1
                                /\ UNCHANGED <<mark, afcVars>>

documents ==
    \E bundle_id \in BundleIds, ok \in BOOLEAN,
       reply \in PlistReplies \cup {NoDict}, connected \in BOOLEAN :
        /\ HaBegin
        /\ Vend("documents", "VendDocuments", bundle_id, ok, reply, connected)

container ==
    \E bundle_id \in BundleIds, ok \in BOOLEAN,
       reply \in PlistReplies \cup {NoDict}, connected \in BOOLEAN :
        /\ HaBegin
        /\ Vend("container", "VendContainer", bundle_id, ok, reply, connected)

\* list_installed_applications / get_application_info: the command, then the
\* reply; `key` is the entry of the reply the call returns
Query(op, command, key, bundle_id, ok, reply) ==
        /\ send_command(command, bundle_id, ok)
        /\ UNCHANGED <<ha_socket, ha_state, mark, extra_afc, afcVars>>
        /\ IF ~ok
           THEN /\ ha_result' = HaResult(op, FALSE, "Io", NoDict, ha_socket)
                /\ UNCHANGED rlog
           ELSE /\ HaRead
                /\ ha_result' =
                     IF reply = NoDict
                     THEN HaResult(op, FALSE, "Io", reply, ha_socket)
                     ELSE IF reply.Error.t # "absent"
                     THEN HaResult(op, FALSE, "HouseArrestError", reply, ha_socket)
                     ELSE IF reply[key].t = "other"
                     THEN HaResult(op, TRUE, "", reply, ha_socket)
                     ELSE HaResult(op, FALSE, "HouseArrestError", reply, ha_socket)

list_installed_applications ==
    \E ok \in BOOLEAN, reply \in PlistReplies \cup {NoDict} :
        /\ HaBegin
        /\ Query("list_installed_applications", "ListApplications", "ApplicationList",
                 <<>>, ok, reply)

get_application_info ==
    \E bundle_id \in BundleIds, ok \in BOOLEAN, reply \in PlistReplies \cup {NoDict} :
        /\ HaBegin
        /\ Query("get_application_info", "Lookup", "LookupResult", bundle_id, ok, reply)

\* ----------------------------------------------- Notification Proxy
\* NotificationType: a predefined variant, or Custom(s)
SyncWillStart == [variant |-> "SyncWillStart", s |-> <<>>]
SyncDidFinish == [variant |-> "SyncDidFinish", s |-> <<>>]
Custom(s) == [variant |-> "Custom", s |-> s]

\* The notification names as bytes (one letter stands for each name):
\* "com.apple.itunes-client.syncWillStart", "...syncDidFinish"
SyncWillStartName == Lit(<<87>>)
SyncDidFinishName == Lit(<<70>>)

\* NotificationType::as_str
as_str(t) ==
    CASE t.variant = "SyncWillStart" -> SyncWillStartName
      [] t.variant = "SyncDidFinish" -> SyncDidFinishName
      [] OTHER -> t.s

\* NotificationType::from_str
from_str(s) ==
    IF s = SyncWillStartName THEN SyncWillStart
    ELSE IF s = SyncDidFinishName THEN SyncDidFinish
    ELSE Custom(s)

\* The values the calls are made with: a predefined one, a custom one, and a
\* custom one that carries the name of a predefined one.
NotificationTypes == { SyncWillStart, Custom(Lit(<<67>>)), Custom(SyncWillStartName) }

\* The three write_all calls of observe_notification / post_notification:
\* the command, the length (32 bits big-endian), the name
NpWrites(command, notification) ==
    LET notification_bytes == as_str(notification)
    IN  << command, to_be_bytes(BLen(notification_bytes)), notification_bytes >>

ObserveCommand == Lit(<<79, 78>>)
PostCommand_swapped == Lit(<<78, 80>>)
PostCommand == Lit(<<80, 78>>)

RECURSIVE Concat(_)
Concat(parts) == IF parts = <<>> THEN <<>> ELSE Cat(parts[1], Concat(Tail(parts)))

\* The frame the device emits for a notification name: "NP", length, name
NpFrame(name) == Concat(<< Lit(<<78, 80>>), to_be_bytes(BLen(name)), name >>)

\* String::from_utf8(..).is_ok(), for the byte strings of this model (ASCII
\* is valid; a byte from 128 on stands for a malformed sequence)
from_utf8_ok(bs) == \A k \in 1..Len(bs) : bs[k].b < 128

\* u32::from_be_bytes
from_be_bytes(bs) ==
    LET b == Bytes(Take(bs, 4))
    IN  16777216 * b[1] + 65536 * b[2] + 256 * b[3] + b[4]

\* let (tx, rx) = mpsc::channel(100)
ChannelCapacity == 100

NewChannel(caller_rx) ==
    [queue |-> <<>>, caller_rx |-> caller_rx, delivered |-> <<>>, start |-> np_read,
     stopped |-> -1]

\* A reader task at the top of its loop: read_exact(&mut command)
\* (at: where in the inbound stream the command it last read began)
NewReader(chan) ==
    [chan |-> chan, pc |-> "command", need |-> 2, buf |-> <<>>, notification |-> <<>>,
     at |-> -1]

NpResult(op, ok, err) == [op |-> op, ok |-> ok, err |-> err]

NpBegin ==
    /\ np_calls < MaxNpCalls
    /\ np_calls' = np_calls + 1
    /\ UNCHANGED <<rlog, afcVars, haVars, muxVars, ssVars, frVars, dgVars>>

\* `writes` of the write_all calls of `parts` succeed; the next one, if any, fails.
NpWrite(command, parts, writes) ==
    IF writes = 0 THEN UNCHANGED wire
    ELSE wire' = [wire EXCEPT !["device"] =
                    Append(@, Frame("notification_proxy", command,
                                    Concat(SubSeq(parts, 1, writes))))]

\* NotificationProxyClient::observe_notification
observe_notification ==
    \E notification \in NotificationTypes, writes \in 0..3 :
        /\ NpBegin
        /\ NpWrite("ON", NpWrites(ObserveCommand, notification), writes)
        /\ np_result' = IF writes = 3 THEN NpResult("observe_notification", TRUE, "")
                        ELSE NpResult("observe_notification", FALSE, "Io")
        /\ UNCHANGED <<np_rx, np_tx, np_in, np_closed, np_read, emitted, readers,
                       chans, listening>>

\* NotificationProxyClient::observe_notifications, for a slice of two
\* notifications: observe_notification for each, up to the first error
observe_notifications ==
    \E first \in NotificationTypes, second \in NotificationTypes,
       writes1 \in {0, 3}, writes2 \in {0, 3} :
        /\ NpBegin
        /\ LET f1 == Frame("notification_proxy", "ON",
                           Concat(NpWrites(ObserveCommand, first)))
               f2 == Frame("notification_proxy", "ON",
                           Concat(NpWrites(ObserveCommand, second)))
           IN  wire' = [wire EXCEPT !["device"] =
                          IF writes1 < 3 THEN @
                          ELSE IF writes2 < 3 THEN Append(@, f1)
                          ELSE Append(Append(@, f1), f2)]
        /\ np_result' = IF writes1 = 3 /\ writes2 = 3
                        THEN NpResult("observe_notifications", TRUE, "")
                        ELSE NpResult("observe_notifications", FALSE, "Io")
        /\ UNCHANGED <<np_rx, np_tx, np_in, np_closed, np_read, emitted, readers,
                       chans, listening>>

\* NotificationProxyClient::post_notification
post_notification ==
    \E notification \in NotificationTypes, writes \in 0..3 :
        /\ NpBegin
        /\ NpWrite("PN", NpWrites(PostCommand, notification), writes)
        /\ np_result' = IF writes = 3 THEN NpResult("post_notification", TRUE, "")
                        ELSE NpResult("post_notification", FALSE, "Io")
        /\ UNCHANGED <<np_rx, np_tx, np_in, np_closed, np_read, emitted, readers,
                       chans, listening>>

\* if self.notification_rx.is_some()
already_listening_never == FALSE
already_listening == np_rx # 0

\* NotificationProxyClient::start_listening; cloned = FALSE: try_clone failed
start_listening ==
    \E cloned \in BOOLEAN :
        /\ NpBegin
        /\ UNCHANGED <<wire, np_in, np_closed, np_read, emitted>>
        /\ IF already_listening
           THEN /\ np_result' = NpResult("start_listening", FALSE, "NotificationProxyError")
                /\ UNCHANGED <<np_rx, np_tx, readers, chans, listening>>
           ELSE /\ np_tx' = Len(chans) + 1
                /\ np_rx' = Len(chans) + 1
                /\ chans' = Append(chans, NewChannel(cloned))
                /\ IF cloned
                   THEN /\ readers' = Append(readers, NewReader(Len(chans) + 1))
                        /\ listening' = TRUE
                        /\ np_result' = NpResult("start_listening", TRUE, "")
                   ELSE /\ np_result' = NpResult("start_listening", FALSE,
                                                 "NotificationProxyError")
                        /\ UNCHANGED <<readers, listening>>

\* NotificationProxyClient::stop_listening
stop_listening ==
    /\ NpBegin
    /\ np_rx' = 0
    /\ np_tx' = 0
    /\ listening' = FALSE
    /\ np_result' = NpResult("stop_listening", TRUE, "")
    \* (the channel remembers how many frames the device had emitted by then)
    /\ chans' = IF np_rx = 0 THEN chans
                ELSE [chans EXCEPT ![np_rx].stopped = Len(emitted)]
    /\ UNCHANGED <<wire, np_in, np_closed, np_read, emitted, readers>>

\* The receivers of channel c that still exist: the one start_listening
\* returned, and the one the client keeps in notification_rx.
ReceiverAlive(c) == chans[c].caller_rx \/ np_rx = c

\* What a reader does once a read_exact is complete.
AfterRead(r) ==
    IF r.pc = "command"
    THEN IF r.buf = Lit(<<78, 80>>)
         THEN [r EXCEPT !.pc = "len", !.need = 4, !.buf = <<>>]
         ELSE [r EXCEPT !.buf = <<>>]
    ELSE IF r.pc = "len"
    THEN IF from_be_bytes(r.buf) = 0
         THEN [r EXCEPT !.pc = "send", !.need = 0, !.buf = <<>>, !.notification = <<>>]
         ELSE [r EXCEPT !.pc = "name", !.need = from_be_bytes(r.buf), !.buf = <<>>]
    ELSE IF from_utf8_ok(r.buf)
         THEN [r EXCEPT !.pc = "send", !.need = 0, !.notification = r.buf, !.buf = <<>>]
         ELSE [r EXCEPT !.pc = "command", !.need = 2, !.buf = <<>>]

\* A reader task's read_exact makes progress: it takes the bytes it still
\* needs, as far as they have arrived; at the end of the stream it fails and
\* the task leaves its loop.
reader_read ==
    \E i \in 1..Len(readers) :
        LET r == readers[i] IN
        /\ r.pc \in {"command", "len", "name"}
        /\ UNCHANGED <<wire, rlog, afcVars, haVars, muxVars, ssVars, frVars, dgVars, np_rx, np_tx, np_closed, emitted,
                       chans, listening, np_result, np_calls>>
        /\ IF np_in = <<>>
           THEN /\ np_closed
                /\ readers' = [readers EXCEPT ![i] = [r EXCEPT !.pc = "exited"]]
                /\ UNCHANGED <<np_in, np_read>>
           ELSE LET got == Take(np_in, r.need - BLen(r.buf))
                    now == [r EXCEPT !.buf = Cat(r.buf, got),
                                     !.at = IF r.pc = "command" /\ r.buf = <<>>
                                            THEN np_read ELSE @]
                IN  /\ np_in' = Drop(np_in, BLen(got))
                    /\ np_read' = np_read + BLen(got)
                    /\ readers' = [readers EXCEPT ![i] =
                                     IF BLen(now.buf) = now.need THEN AfterRead(now)
                                     ELSE now]

\* A reader task's tx.send(notification).await
reader_send ==
    \E i \in 1..Len(readers) :
        LET r == readers[i] IN
        /\ r.pc = "send"
        /\ UNCHANGED <<wire, rlog, afcVars, haVars, muxVars, ssVars, frVars, dgVars, np_rx, np_tx, np_in, np_closed,
                       np_read, emitted, listening, np_result, np_calls>>
        /\ IF ~ReceiverAlive(r.chan)
           THEN /\ readers' = [readers EXCEPT ![i] = [r EXCEPT !.pc = "exited"]]
                /\ UNCHANGED chans
           ELSE /\ Len(chans[r.chan].queue) < ChannelCapacity
                /\ chans' = [chans EXCEPT ![r.chan].queue =
                               Append(@, from_str(r.notification))]
                /\ readers' = [readers EXCEPT ![i] =
                                 [r EXCEPT !.pc = "command", !.need = 2,
                                           !.notification = <<>>]]

\* The caller of start_listening receives from the Receiver it was given.
caller_recv ==
    \E c \in 1..Len(chans) :
        /\ chans[c].caller_rx
        /\ chans[c].queue # <<>>
        /\ chans' = [chans EXCEPT ![c].queue = Tail(@),
                                  ![c].delivered = Append(@, chans[c].queue[1])]
        /\ UNCHANGED <<wire, rlog, afcVars, haVars, muxVars, ssVars, frVars, dgVars, np_rx, np_tx, np_in, np_closed,
                       np_read, emitted, readers, listening, np_result, np_calls>>

\* The caller drops a Receiver of a listener it has stopped.
caller_drop ==
    \E c \in 1..Len(chans) :
        /\ chans[c].caller_rx
        /\ np_rx # c
        /\ chans' = [chans EXCEPT ![c].caller_rx = FALSE]
        /\ UNCHANGED <<wire, rlog, afcVars, haVars, muxVars, ssVars, frVars, dgVars, np_rx, np_tx, np_in, np_closed,
                       np_read, emitted, readers, listening, np_result, np_calls>>

\* The device emits one NP frame: the name of a notification value t the
\* client observes.
device_emit ==
    \E t \in NotificationTypes :
        /\ ~np_closed
        /\ Len(emitted) < MaxEmits
        /\ np_in' = Cat(np_in, NpFrame(as_str(t)))
        /\ emitted' = Append(emitted,
                             [name |-> as_str(t), of |-> t, off |-> np_read + BLen(np_in),
                              publish |-> TRUE])
        /\ UNCHANGED <<wire, rlog, afcVars, haVars, muxVars, ssVars, frVars, dgVars, np_rx, np_tx, np_closed, np_read,
                       readers, chans, listening, np_result, np_calls>>

\* What else the device may send, none of it to be published: the shutdown
\* command "ND", a command the client does not know ("NX") with a length
\* and a name of one or of two bytes, and an NP frame whose name is not UTF-8.
OtherFrames ==
    { [kind |-> "ND", bytes |-> Lit(<<78, 68>>)],
      [kind |-> "NX1", bytes |-> Concat(<< Lit(<<78, 88>>), to_be_bytes(1), Lit(<<97>>) >>)],
      [kind |-> "NX2", bytes |-> Concat(<< Lit(<<78, 88>>), to_be_bytes(2), Lit(<<97, 98>>) >>)],
      [kind |-> "NP, not UTF-8", bytes |-> NpFrame(Lit(<<200>>))] }

\* The device sends one of these frames.
device_emit_other ==
    \E f \in OtherFrames :
        /\ ~np_closed
        /\ Len(emitted) < MaxEmits
        /\ np_in' = Cat(np_in, f.bytes)
        /\ emitted' = Append(emitted,
                             [name |-> <<>>, of |-> f, off |-> np_read + BLen(np_in),
                              publish |-> FALSE])
        /\ UNCHANGED <<wire, rlog, afcVars, haVars, muxVars, ssVars, frVars, dgVars, np_rx, np_tx, np_closed, np_read,
                       readers, chans, listening, np_result, np_calls>>

\* The device closes the connection.
device_close ==
    /\ ~np_closed
    /\ np_closed' = TRUE
    /\ UNCHANGED <<wire, rlog, afcVars, haVars, muxVars, ssVars, frVars, dgVars, np_rx, np_tx, np_in, np_read, emitted,
                   readers, chans, listening, np_result, np_calls>>

\* ---------------------------------------------------------- usbmuxd
\* Text that the client computes with (connection types, Unknown tags) is a
\* sequence of character codes; address blobs are sequences of bytes.
UsbText == <<85, 83, 66>>
NetworkText == <<78, 101, 116, 119, 111, 114, 107>>
WifiText == <<87, 105, 102, 105>>

\* UsbmuxdConnection::XML_PLIST_VERSION, PLIST_MESSAGE_TYPE
XML_PLIST_VERSION == 1
PLIST_MESSAGE_TYPE == 8

\* enum Connection, with IpAddr::V4(Ipv4Addr::new(..)) / IpAddr::V6(Ipv6Addr::new(..))
Usb == [kind |-> "Usb", ip |-> <<>>, s |-> <<>>]
Network(ip) == [kind |-> "Network", ip |-> ip, s |-> <<>>]
Unknown(s) == [kind |-> "Unknown", ip |-> <<>>, s |-> s]

\* u16::from_be_bytes([hi, lo])
u16_from_be_bytes(hi, lo) == hi * 256 + lo

\* Ipv4Addr::new(addr[4], addr[5], addr[6], addr[7]); sequences count from 1
Ipv4Of_from_start(addr) == <<addr[1], addr[2], addr[3], addr[4]>>
Ipv4Of(addr) == <<addr[5], addr[6], addr[7], addr[8]>>

\* Ipv6Addr::new of the eight groups in addr[8..24]
Ipv6Of(addr) ==
    [g \in 1..8 |-> u16_from_be_bytes(addr[7 + 2 * g], addr[8 + 2 * g])]

\* one digit of {:02X}
HexDigit(d) == IF d < 10 THEN 48 + d ELSE 55 + d
HexDigit_lower(d) == IF d < 10 THEN 48 + d ELSE 87 + d

\* format!("Network {:02X}", b)
UnknownFamily_lower(b) ==
    NetworkText \o <<32, HexDigit_lower(b \div 16), HexDigit_lower(b % 16)>>
UnknownFamily(b) == NetworkText \o <<32, HexDigit(b \div 16), HexDigit(b % 16)>>

\* A device of a ListDevices response, as des::ListDevicesResponse holds it.
\* network_address is an Option: has_address = FALSE is None.
Device(device_id, connection_type, serial_number, has_address, network_address) ==
    [device_id |-> device_id, connection_type |-> connection_type,
     serial_number |-> serial_number, has_address |-> has_address,
     network_address |-> network_address]

NoConnection == [kind |-> "", ip |-> <<>>, s |-> <<>>]

\* The match of get_devices on one device: the connection type, or the
\* early return with UnexpectedResponse (bad = TRUE).
connection_type(dev) ==
    IF dev.connection_type = NetworkText
    THEN IF dev.has_address
         THEN LET addr == dev.network_address IN
              IF Len(addr) < 8 THEN [bad |-> TRUE, c |-> NoConnection]
              ELSE IF addr[1] = 2
                   THEN [bad |-> FALSE, c |-> Network(Ipv4Of(addr))]
              ELSE IF addr[1] = 30
                   THEN IF Len(addr) < 24 THEN [bad |-> TRUE, c |-> NoConnection]
                        ELSE [bad |-> FALSE, c |-> Network(Ipv6Of(addr))]
              ELSE [bad |-> FALSE, c |-> Unknown(UnknownFamily(addr[1]))]
         ELSE [bad |-> TRUE, c |-> NoConnection]
    ELSE IF dev.connection_type = UsbText THEN [bad |-> FALSE, c |-> Usb]
    ELSE [bad |-> FALSE, c |-> Unknown(dev.connection_type)]

\* struct UsbmuxdDevice
UsbmuxdDevice(c, udid, device_id) ==
    [connection_type |-> c, udid |-> udid, device_id |-> device_id]

\* What a call returns: Ok(val) or Err(err).
MuxOk(val) == [ok |-> TRUE, err |-> "", val |-> val]
MuxErr(err) == [ok |-> FALSE, err |-> err, val |-> <<>>]

\* return Err(IdeviceError::UnexpectedResponse) inside the loop of
\* get_devices; devs is what the loop had pushed by then
device_error_partial(devs) == MuxOk(devs)
device_error(devs) == MuxErr("UnexpectedResponse")

\* ----------------------------------------- usbmuxd: the connection
\* The byte order of the host the client is built for.
target_endian == "little"

\* u16::to_be: the value whose bytes in the host's memory are p.to_be_bytes()
to_be_noop(p) == p
to_be(p) ==
    LET be == <<p \div 256, p % 256>>
    IN  IF target_endian = "little" THEN be[1] + 256 * be[2]
        ELSE 256 * be[1] + be[2]

\* The request dictionaries; -1 and "" stand for a key the request lacks.
Request(message_type, device_id, port_number, pair_record_id) ==
    [MessageType |-> message_type, DeviceID |-> device_id,
     PortNumber |-> port_number, PairRecordID |-> pair_record_id]

ListDevicesRequest == Request("ListDevices", -1, -1, "")
ReadPairRecordRequest(udid) == Request("ReadPairRecord", -1, -1, udid)
ReadBUIDRequest == Request("ReadBUID", -1, -1, "")
ConnectRequest(device_id, port) == Request("Connect", device_id, port, "")

\* raw_packet::RawPacket::new(req, version, message, tag)
RawPacket_new(plist, version, message, tag) ==
    [plist |-> plist, version |-> version, message |-> message, tag |-> tag]

\* UsbmuxdConnection::write_plist; ok = FALSE: write_all failed
write_plist(req, ok) ==
    IF ok
    THEN mux_out' = Append(mux_out, RawPacket_new(req, XML_PLIST_VERSION,
                                                  PLIST_MESSAGE_TYPE, mux_tag))
    ELSE UNCHANGED mux_out

\* UsbmuxdConnection::read_plist: "io" a read_exact failed, "plist" the body
\* is no plist dictionary (of the shape asked for), "ok" the dictionary is
\* returned.  Of the 16 header bytes only the first four are looked at.
ReadOutcomes == {"ok", "io", "plist"}
read_plist(read) ==
    IF read = "io" THEN "Io" ELSE IF read = "plist" THEN "Plist" ELSE ""

\* The tags a connection is given, and a response frame can carry.
Tags == {1, 2}

\* plist values of the Number key
NumAbsent == [t |-> "absent", v |-> 0]
Integer(n) == [t |-> "integer", v |-> n]
NotInteger == [t |-> "string", v |-> 0]
Numbers == {NumAbsent, NotInteger} \cup {Integer(n) : n \in -1..7}

\* match i.as_unsigned() { Some(0) => Ok(..), Some(1) => .. }: "" for Ok
connect_result_lenient(number) ==
    IF number.t = "integer" /\ number.v = 1 THEN "UsbBadCommand"
    ELSE IF number.t = "integer" /\ number.v = 2 THEN "UsbBadDevice"
    ELSE IF number.t = "integer" /\ number.v = 3 THEN "UsbConnectionRefused"
    ELSE IF number.t = "integer" /\ number.v = 6 THEN "UsbBadVersion"
    ELSE ""
connect_result(number) ==
    IF number.t # "integer" THEN "UnexpectedResponse"
    ELSE IF number.v < 0 THEN "UnexpectedResponse"      \* as_unsigned() is None
    ELSE IF number.v = 0 THEN ""
    ELSE IF number.v = 1 THEN "UsbBadCommand"
    ELSE IF number.v = 2 THEN "UsbBadDevice"
    ELSE IF number.v = 3 THEN "UsbConnectionRefused"
    ELSE IF number.v = 6 THEN "UsbBadVersion"
    ELSE "UnexpectedResponse"

\* What the model keeps of a finished call: its result, whether read_plist
\* returned a response to it and that response's tag, and the inputs the
\* result is of (the arguments, and what the response held).
MuxResult(op, r, answered, tag, in) ==
    [op |-> op, ok |-> r.ok, err |-> r.err, val |-> r.val,
     answered |-> answered, tag |-> tag, in |-> in]

MuxInput(device_list, number, device_id, port) ==
    [device_list |-> device_list, number |-> number,
     device_id |-> device_id, port |-> port]

NoInput == MuxInput(<<>>, NumAbsent, -1, -1)

\* No call has returned yet, or one is running.
NoMuxResult == MuxResult("", MuxOk(<<>>), FALSE, -1, NoInput)

\* The locals of the loop of get_devices: `seen` is the part of
\* res.device_list the loop has taken so far, `devs` what it has pushed.
NotInLoop == [on |-> FALSE, tag |-> -1, seen |-> <<>>, devs |-> <<>>]
InLoop(tag, seen, devs) == [on |-> TRUE, tag |-> tag, seen |-> seen, devs |-> devs]

MuxBegin ==
    /\ mux_socket # "none"
    /\ ~mux_loop.on
    /\ mux_calls < MaxMuxCalls
    /\ mux_calls' = mux_calls + 1
    /\ UNCHANGED <<wire, rlog, afcVars, haVars, npVars, ssVars, frVars, dgVars, mux_tag>>

\* write_plist(req).await? then read_plist().await?, then `parsed`
Exchange(op, req, ok, read, tag, in, parsed) ==
    /\ write_plist(req, ok)
    /\ mux_result' =
         LET args == MuxInput(<<>>, NumAbsent, in.device_id, in.port) IN
         IF ~ok THEN MuxResult(op, MuxErr("Io"), FALSE, -1, args)
         ELSE IF read_plist(read) # ""
         THEN MuxResult(op, MuxErr(read_plist(read)), FALSE, -1, args)
         ELSE MuxResult(op, parsed, TRUE, tag, in)

\* The address blobs of the responses considered: IPv4 and IPv6 ones of
\* full length, truncated ones, ones of another family.
AddrV4 == <<2, 0, 0, 0, 192, 168, 1, 7>>
AddrV6 == <<30, 0, 0, 0, 0, 0, 0, 0, 254, 128, 0, 1, 0, 2, 0, 3,
            0, 4, 0, 5, 0, 6, 1, 7>>
AddrV4Short == <<2, 0, 0, 0, 192, 168, 1>>
AddrV6Short == <<30, 0, 0, 0, 0, 0, 0, 0, 254, 128, 0, 1>>
AddrOther == <<175, 0, 0, 0, 1, 2, 3, 4, 5>>
AddrOtherShort == <<10, 0>>

NetworkAddresses ==
    { AddrV4, AddrV6, AddrV4Short, AddrV6Short, AddrOther, AddrOtherShort }

\* The devices a ListDevices response can hold.
DeviceEntries ==
    { Device(1, UsbText, "usb-1", FALSE, <<>>),
      Device(2, WifiText, "wifi-2", FALSE, <<>>),
      Device(3, NetworkText, "net-3", FALSE, <<>>) }
    \cup { Device(10 + Len(a), NetworkText, "net", TRUE, a) : a \in NetworkAddresses }

Ports == {4660, 62078, 255, 43947}
DeviceIds == {42}
Udids == {"usb-1"}

\* UsbmuxdConnection::get_devices, up to `for dev in res.device_list`
get_devices ==
    \E ok \in BOOLEAN, read \in ReadOutcomes, tag \in Tags :
        /\ MuxBegin
        /\ write_plist(ListDevicesRequest, ok)
        /\ IF ok /\ read_plist(read) = ""
           THEN /\ mux_loop' = InLoop(tag, <<>>, <<>>)
                /\ mux_result' = NoMuxResult
           ELSE /\ mux_result' =
                     MuxResult("get_devices",
                               MuxErr(IF ok THEN read_plist(read) ELSE "Io"),
                               FALSE, -1, NoInput)
                /\ UNCHANGED mux_loop
        /\ UNCHANGED <<mux_socket, mux_open, idevice, mux_final>>

\* The calls of one UsbmuxdConnection are sequential: nothing else of it
\* changes while get_devices is in its loop.
InDeviceLoop ==
    /\ mux_loop.on
    /\ UNCHANGED <<wire, rlog, afcVars, haVars, npVars, ssVars, frVars, dgVars, mux_socket, mux_tag, mux_open,
                   idevice, mux_out, mux_final, mux_calls>>

\* get_devices: one turn of the loop, on the next device of the list; the
\* device is pushed, or the call returns the error
get_devices_next ==
    \E dev \in DeviceEntries :
        /\ InDeviceLoop
        /\ Len(mux_loop.seen) < MaxDevices
        /\ LET t == connection_type(dev)
               seen == Append(mux_loop.seen, dev)
           IN  IF t.bad
               THEN /\ mux_result' =
                         MuxResult("get_devices", device_error(mux_loop.devs), TRUE,
                                   mux_loop.tag, MuxInput(seen, NumAbsent, -1, -1))
                    /\ mux_loop' = NotInLoop
               ELSE /\ mux_loop' =
                         InLoop(mux_loop.tag, seen,
                                Append(mux_loop.devs,
                                       UsbmuxdDevice(t.c, dev.serial_number, dev.device_id)))
                    /\ UNCHANGED mux_result

\* get_devices: the list is exhausted, Ok(devs)
get_devices_done ==
    /\ InDeviceLoop
    /\ mux_result' = MuxResult("get_devices", MuxOk(mux_loop.devs), TRUE, mux_loop.tag,
                               MuxInput(mux_loop.seen, NumAbsent, -1, -1))
    /\ mux_loop' = NotInLoop

\* UsbmuxdConnection::get_pair_record; record: the response has a
\* PairRecordData that PairingFile::from_bytes accepts
get_pair_record ==
    \E udid \in Udids, ok \in BOOLEAN, read \in ReadOutcomes, tag \in Tags,
       record \in BOOLEAN :
        /\ MuxBegin
        /\ Exchange("get_pair_record", ReadPairRecordRequest(udid), ok, read, tag, NoInput,
                    IF record THEN MuxOk(<<>>) ELSE MuxErr("UnexpectedResponse"))
        /\ UNCHANGED <<mux_socket, mux_open, idevice, mux_final, mux_loop>>

\* UsbmuxdConnection::get_buid; buid: the response has a string BUID
get_buid ==
    \E ok \in BOOLEAN, read \in ReadOutcomes, tag \in Tags, buid \in BOOLEAN :
        /\ MuxBegin
        /\ Exchange("get_buid", ReadBUIDRequest, ok, read, tag, NoInput,
                    IF buid THEN MuxOk(<<66>>) ELSE MuxErr("UnexpectedResponse"))
        /\ UNCHANGED <<mux_socket, mux_open, idevice, mux_final, mux_loop>>

\* connect_to_device takes `mut self`: when it returns, the connection is
\* gone.  What is left of it and of its socket when the call failed (self
\* is dropped) ...
self_dropped_borrowed == [mux_socket |-> mux_socket, idevice |-> "none", open |-> TRUE]
self_dropped == [mux_socket |-> "none", idevice |-> "none", open |-> FALSE]

\* ... and when it returned Ok(Idevice::new(self.socket, label))
socket_moved == [mux_socket |-> "none", idevice |-> mux_socket, open |-> TRUE]

\* UsbmuxdConnection::connect_to_device
connect_to_device ==
    \E device_id \in DeviceIds, port \in Ports, ok \in BOOLEAN, read \in ReadOutcomes,
       tag \in Tags, number \in Numbers :
        /\ MuxBegin
        /\ Exchange("connect_to_device", ConnectRequest(device_id, to_be(port)),
                    ok, read, tag, MuxInput(<<>>, number, device_id, port),
                    IF connect_result(number) = "" THEN MuxOk(<<>>)
                    ELSE MuxErr(connect_result(number)))
        /\ LET after == IF mux_result'.ok THEN socket_moved ELSE self_dropped
           IN  /\ mux_socket' = after.mux_socket
               /\ idevice' = after.idevice
               /\ mux_open' = after.open
        /\ mux_final' = Len(mux_out')
        /\ UNCHANGED mux_loop

\* -------------------------------------------------------- Screenshot
MaxShotCalls == 2
MaxShotReplies == 2

\* The keys and the status text the client looks at (cut to their initials).
StatusKey == <<83>>
ErrorKey == <<69>>
ImageDataKey == <<73>>
Success == <<83, 117, 99>>
UnknownError == <<85>>
NoImageData == <<78>>

\* A whole frame is at the front of the inbound bytes: both read_exact return.
frame_ready(inbound) ==
    BLen(inbound) >= 4 /\ BLen(inbound) >= 4 + from_be_bytes(inbound)

\* ScreenshotClient::read_plist on the inbound bytes: the dictionary
\* parsed, and the bytes left unread
screenshot_read_plist(inbound) ==
    LET len == from_be_bytes(inbound)
        data == Take(Drop(inbound, 4), len)
    IN  [dict |-> from_bytes(data), rest |-> Drop(Drop(inbound, 4), len)]

\* Dictionary::get
RECURSIVE get(_, _)
get(dict, key) ==
    IF dict = <<>> THEN Absent
    ELSE IF dict[1][1] = key THEN dict[1][2]
    ELSE get(Tail(dict), key)

ShotResult(ok, err, image, response) ==
    [ok |-> ok, err |-> err, image |-> image, response |-> response]
NoShotResult == ShotResult(TRUE, <<>>, <<>>, NoPlist)

\* take_screenshot from the response on: the status check, then ImageData
screenshot_of(response) ==
    LET status == get(response, StatusKey)
        error == get(response, ErrorKey)
        data == get(response, ImageDataKey)
    IN  IF status.t = "string" /\ status.v # Success
        THEN ShotResult(FALSE,
                        <<"ScreenshotError",
                          IF error.t = "string" THEN error.v ELSE UnknownError>>,
                        <<>>, Parsed(response))
        ELSE IF data.t = "data"
        THEN ShotResult(TRUE, <<>>, data.v, Parsed(response))
        ELSE ShotResult(FALSE, <<"ScreenshotError", NoImageData>>, <<>>,
                        Parsed(response))

\* take_screenshot up to the await in read_plist; ok = FALSE: a write on
\* the socket failed
take_screenshot_call ==
    /\ ss_pc = "idle"
    /\ ss_calls < MaxShotCalls
    /\ ss_calls' = ss_calls + 1
    /\ \E ok \in BOOLEAN :
        IF ok
        THEN /\ ss_out' = Append(ss_out, plist_frame(to_format_xml(<<>>)))
             /\ ss_pc' = "reading"
             /\ UNCHANGED ss_result
        ELSE /\ ss_result' = ShotResult(FALSE, <<"Io">>, <<>>, NoPlist)
             /\ UNCHANGED <<ss_out, ss_pc>>
    /\ UNCHANGED <<wire, rlog, afcVars, haVars, npVars, muxVars, frVars, dgVars,
                   ss_in, ss_sent, ss_reads>>

\* take_screenshot from read_plist on
take_screenshot_recv ==
    /\ ss_pc = "reading"
    /\ frame_ready(ss_in)
    /\ LET r == screenshot_read_plist(ss_in) IN
        /\ ss_in' = r.rest
        /\ ss_reads' = ss_reads + 1
        /\ ss_result' = IF r.dict.ok THEN screenshot_of(r.dict.dict)
                        ELSE ShotResult(FALSE, <<"Plist">>, <<>>, NoPlist)
    /\ ss_pc' = "idle"
    /\ UNCHANGED <<wire, rlog, afcVars, haVars, npVars, muxVars, frVars, dgVars,
                   ss_out, ss_sent, ss_calls>>

\* The messages the screenshot service sends: reply dictionaries, and
\* bytes that are no property list.
ShotReplies ==
    { << <<StatusKey, PString(Success)>>, <<ImageDataKey, PData(<<137, 80>>)>> >>,
      << <<StatusKey, PString(<<70, 60, 38>>)>>, <<ErrorKey, PString(<<97, 62, 98>>)>> >>,
      << <<ImageDataKey, PData(<<0, 255>>)>> >>,
      <<>> }
ShotMessages ==
    { [plist |-> Parsed(d), xml |-> to_format_xml(d)] : d \in ShotReplies }
      \cup { [plist |-> NoPlist, xml |-> Lit(<<60, 120, 62>>)] }

\* The service sends one message, framed as the protocol says.
screenshot_service_send ==
    /\ ss_pc # "none"
    /\ Len(ss_sent) < MaxShotReplies
    /\ \E m \in ShotMessages :
        /\ ss_sent' = Append(ss_sent, m)
        /\ ss_in' = Cat(ss_in, Cat(to_be_bytes(BLen(m.xml)), m.xml))
    /\ UNCHANGED <<wire, rlog, afcVars, haVars, npVars, muxVars, frVars, dgVars,
                   ss_pc, ss_out, ss_reads, ss_result, ss_calls>>

\* -------------------------------------------------------- File Relay
MaxRelayCalls == 2
MaxRelayMessages == 2

\* The keys and texts of the file relay exchange (cut to their initials).
SourcesKey == <<83, 111>>
Complete == <<67>>
UnexpectedStatus == <<85, 115, 58>>

\* FileRelaySource::as_str
source_as_str(source) ==
    CASE source = "Network" -> <<78>>
      [] source = "Tmp"     -> <<84>>
      [] source = "All"     -> <<65>>

\* The slices request_files is called with.
SourceLists ==
    { <<>>, <<"Network">>, <<"Network", "Network">>, <<"Network", "Tmp">> }

\* let sources_set: HashSet<_> = sources.iter().collect(), and the orders
\* in which iterating over it can yield its elements
HashSetOf(sources) == { sources[k] : k \in DOMAIN sources }
Orders(set) ==
    { order \in [1..Cardinality(set) -> set] :
        \A x \in set : \E k \in DOMAIN order : order[k] = x }

\* The request dictionary for the sources in one iteration order.
SourcesDict(order) ==
    << <<SourcesKey, PArray([k \in DOMAIN order |-> source_as_str(order[k])])>> >>

RelayResult(ok, err, data) == [ok |-> ok, err |-> err, data |-> data]
NoRelayResult == RelayResult(TRUE, <<>>, <<>>)

\* FileRelayClient::read_plist on the inbound bytes: the dictionary
\* parsed, and the bytes left unread
file_relay_read_plist(inbound) ==
    LET len == from_be_bytes(inbound)
        data == Take(Drop(inbound, 4), len)
    IN  [dict |-> from_bytes(data), rest |-> Drop(Drop(inbound, 4), len)]

\* request_files: the checks on the response; <<>> when it goes on to read
\* the file data
files_error(response) ==
    LET error == get(response, ErrorKey)
        status == get(response, StatusKey)
        status_str == IF status.t = "string" THEN status.v ELSE <<>>
    IN  IF error.t # "absent"
        THEN <<"FileRelayError", IF error.t = "string" THEN error.v ELSE UnknownError>>
        ELSE IF status.t # "absent" /\ status_str # Complete
        THEN <<"FileRelayError", UnexpectedStatus \o status_str>>
        ELSE <<>>

\* request_files up to the await in read_plist; ok = FALSE: a write on the
\* socket failed
request_files_call ==
    /\ fr_pc = "idle"
    /\ fr_calls < MaxRelayCalls
    /\ fr_calls' = fr_calls + 1
    /\ fr_reply' = NoPlist
    /\ fr_length' = -1
    /\ fr_blob' = 0
    /\ \E sources \in SourceLists, ok \in BOOLEAN :
        \E order \in Orders(HashSetOf(sources)) :
            IF ok
            THEN /\ fr_out' = Append(fr_out, plist_frame(to_format_xml(SourcesDict(order))))
                 /\ fr_pc' = "reading"
                 /\ fr_result' = NoRelayResult
            ELSE /\ fr_result' = RelayResult(FALSE, <<"Io">>, <<>>)
                 /\ UNCHANGED <<fr_out, fr_pc>>
    /\ UNCHANGED <<wire, rlog, afcVars, haVars, npVars, muxVars, ssVars, dgVars,
                   fr_in, fr_sent>>

\* request_files from read_plist to the await on the 4 length bytes
request_files_recv ==
    /\ fr_pc = "reading"
    /\ frame_ready(fr_in)
    /\ LET r == file_relay_read_plist(fr_in) IN
        /\ fr_in' = r.rest
        /\ fr_reply' = r.dict
        /\ IF ~r.dict.ok
           THEN fr_pc' = "idle" /\ fr_result' = RelayResult(FALSE, <<"Plist">>, <<>>)
           ELSE IF files_error(r.dict.dict) # <<>>
           THEN /\ fr_pc' = "idle"
                /\ fr_result' = RelayResult(FALSE, files_error(r.dict.dict), <<>>)
           ELSE fr_pc' = "length" /\ UNCHANGED fr_result
    /\ UNCHANGED <<wire, rlog, afcVars, haVars, npVars, muxVars, ssVars, dgVars,
                   fr_out, fr_sent, fr_length, fr_blob, fr_calls>>

\* request_files: read_exact(&mut length_buf) returns
request_files_length ==
    /\ fr_pc = "length"
    /\ BLen(fr_in) >= 4
    /\ fr_length' = from_be_bytes(fr_in)
    /\ fr_in' = Drop(fr_in, 4)
    /\ fr_blob' = fr_blob + 4
    /\ fr_pc' = "data"
    /\ UNCHANGED <<wire, rlog, afcVars, haVars, npVars, muxVars, ssVars, dgVars,
                   fr_out, fr_sent, fr_reply, fr_result, fr_calls>>

\* request_files: read_exact(&mut data) returns, and Ok(data)
request_files_data ==
    /\ fr_pc = "data"
    /\ BLen(fr_in) >= fr_length
    /\ fr_result' = RelayResult(TRUE, <<>>, Take(fr_in, fr_length))
    /\ fr_in' = Drop(fr_in, fr_length)
    /\ fr_blob' = fr_blob + fr_length
    /\ fr_pc' = "idle"
    /\ UNCHANGED <<wire, rlog, afcVars, haVars, npVars, muxVars, ssVars, dgVars,
                   fr_out, fr_sent, fr_reply, fr_length, fr_calls>>

\* What the file relay service sends: reply dictionaries, and blobs.
RelayReplies ==
    { << <<StatusKey, PString(Complete)>> >>,
      << <<StatusKey, PString(<<70>>)>> >>,
      << <<StatusKey, PData(<<1>>)>> >>,
      << <<ErrorKey, PString(<<97>>)>> >>,
      <<>> }
RelayBlobs == { Lit(<<31, 139>>) }
RelayMessages ==
    { [kind |-> "plist", plist |-> d, bytes |-> plist_frame(to_format_xml(d))] :
        d \in RelayReplies }
      \cup { [kind |-> "blob", plist |-> <<>>, bytes |-> Cat(to_be_bytes(BLen(b)), b)] :
               b \in RelayBlobs }

\* The service sends one message.
relay_service_send ==
    /\ fr_pc # "none"
    /\ Len(fr_sent) < MaxRelayMessages
    /\ \E m \in RelayMessages :
        /\ fr_sent' = Append(fr_sent, m)
        /\ fr_in' = Cat(fr_in, m.bytes)
    /\ UNCHANGED <<wire, rlog, afcVars, haVars, npVars, muxVars, ssVars, dgVars,
                   fr_pc, fr_out, fr_reply, fr_length, fr_blob, fr_result, fr_calls>>

\* ------------------------------------------------------- Diagnostics
MaxDiagCalls == 2
MaxDiagReplies == 2

\* The keys and texts of the diagnostics exchange (cut to their initials).
RequestKey == <<82>>
DomainKey == <<68, 111>>
DiagnosticsKey == <<68>>

\* enum DiagnosticsAction, as far as it is used here
DiagnosticsActions ==
    { [kind |-> "All", domain |-> ""],
      [kind |-> "Domain", domain |-> "WiFi"],
      [kind |-> "Restart", domain |-> ""] }

\* DiagnosticsDomain::as_str
domain_as_str(domain) ==
    CASE domain = "WiFi"     -> <<119>>
      [] domain = "GasGauge" -> <<103>>

\* request_diagnostics: the request dictionary for an action
RequestDict(action) ==
    CASE action.kind = "All"     -> << <<RequestKey, PString(<<65>>)>> >>
      [] action.kind = "Domain"  -> << <<RequestKey, PString(<<68>>)>>,
                                       <<DomainKey, PString(domain_as_str(action.domain))>> >>
      [] action.kind = "Restart" -> << <<RequestKey, PString(<<82>>)>> >>

\* A returned plist::Value: the value of a key, or the whole response.
WholeResponse(response) == [t |-> "dictionary", v |-> response]

DiagResult(ok, err, val) == [ok |-> ok, err |-> err, val |-> val]
NoDiagResult == DiagResult(TRUE, <<>>, Absent)

\* DiagnosticsClient::read_plist on the inbound bytes: the dictionary
\* parsed, and the bytes left unread
diagnostics_read_plist(inbound) ==
    LET len == from_be_bytes(inbound)
        data == Take(Drop(inbound, 4), len)
    IN  [dict |-> from_bytes(data), rest |-> Drop(Drop(inbound, 4), len)]

\* request_diagnostics from the response on: the status check, then the
\* Diagnostics value, then the whole response
diagnostics_of(response) ==
    LET status == get(response, StatusKey)
        error == get(response, ErrorKey)
        diagnostics == get(response, DiagnosticsKey)
    IN  IF status.t = "string" /\ status.v # Success
        THEN DiagResult(FALSE,
                        <<"DiagnosticsError",
                          IF error.t = "string" THEN error.v ELSE UnknownError>>,
                        Absent)
        ELSE IF diagnostics.t # "absent"
        THEN DiagResult(TRUE, <<>>, diagnostics)
        ELSE DiagResult(TRUE, <<>>, WholeResponse(response))

\* request_diagnostics up to the await in read_plist; ok = FALSE: a write
\* on the socket failed
request_diagnostics_call ==
    /\ dg_pc = "idle"
    /\ dg_calls < MaxDiagCalls
    /\ dg_calls' = dg_calls + 1
    /\ dg_reply' = NoPlist
    /\ \E action \in DiagnosticsActions, ok \in BOOLEAN :
        IF ok
        THEN /\ dg_out' = Append(dg_out, plist_frame(to_format_xml(RequestDict(action))))
             /\ dg_pc' = "reading"
             /\ dg_result' = NoDiagResult
        ELSE /\ dg_result' = DiagResult(FALSE, <<"Io">>, Absent)
             /\ UNCHANGED <<dg_out, dg_pc>>
    /\ UNCHANGED <<wire, rlog, afcVars, haVars, npVars, muxVars, ssVars, frVars,
                   dg_in, dg_sent>>

\* request_diagnostics from read_plist on
request_diagnostics_recv ==
    /\ dg_pc = "reading"
    /\ frame_ready(dg_in)
    /\ LET r == diagnostics_read_plist(dg_in) IN
        /\ dg_in' = r.rest
        /\ dg_reply' = r.dict
        /\ dg_result' = IF r.dict.ok THEN diagnostics_of(r.dict.dict)
                        ELSE DiagResult(FALSE, <<"Plist">>, Absent)
    /\ dg_pc' = "idle"
    /\ UNCHANGED <<wire, rlog, afcVars, haVars, npVars, muxVars, ssVars, frVars,
                   dg_out, dg_sent, dg_calls>>

\* The replies the diagnostics service sends, and bytes that are no
\* property list.
DiagReplies ==
    { << <<StatusKey, PString(Success)>>, <<DiagnosticsKey, PString(<<100>>)>> >>,
      << <<StatusKey, PString(Success)>> >>,
      << <<StatusKey, PString(<<70>>)>>, <<ErrorKey, PString(<<101>>)>> >>,
      << <<StatusKey, PString(<<70>>)>>, <<DiagnosticsKey, PString(<<100>>)>> >>,
      << <<StatusKey, PData(<<1>>)>>, <<ErrorKey, PString(<<101>>)>> >>,
      << <<DiagnosticsKey, PString(<<100>>)>> >>,
      <<>> }
DiagMessages ==
    { to_format_xml(d) : d \in DiagReplies } \cup { Lit(<<60, 120, 62>>) }

\* The service sends one reply, framed as the protocol says.
diagnostics_service_send ==
    /\ dg_pc # "none"
    /\ Len(dg_sent) < MaxDiagReplies
    /\ \E xml \in DiagMessages :
        /\ dg_sent' = Append(dg_sent, xml)
        /\ dg_in' = Cat(dg_in, plist_frame(xml))
    /\ UNCHANGED <<wire, rlog, afcVars, haVars, npVars, muxVars, ssVars, frVars,
                   dg_pc, dg_out, dg_reply, dg_result, dg_calls>>

\* ------------------------------------------------------ specifications
vars == <<wire, rlog, afcVars, haVars, npVars, muxVars, ssVars, frVars, dgVars>>

NoLocals ==
    [op |-> "", path |-> <<>>, start |-> 0, rstart |-> 0, file_handle |-> NoHandle,
     file_content |-> <<>>, input |-> <<>>, data |-> <<>>, fulls |-> 0, chunks |-> <<>>]

InitStreams ==
    /\ wire = [s \in {"device", "dummy"} |-> <<>>]
    /\ rlog = [s \in {"device", "dummy"} |-> <<>>]

InitAfcClient(socket) ==
    /\ afc_socket = socket
    /\ packet_num = 0
    /\ pc = "idle"
    /\ loc = NoLocals
    /\ last_reply = NoReply
    /\ result = NoResult
    /\ ops = 0

InitHouseArrestClient(socket) ==
    /\ ha_socket = socket
    /\ ha_state = "ready"
    /\ ha_result = HaResult("", TRUE, "", NoDict, socket)
    /\ ha_calls = 0
    /\ mark = [complete |-> -1, reads |-> -1]
    /\ extra_afc = 0

\* NotificationProxyClient::connect
InitNotificationProxyClient ==
    /\ np_rx = 0
    /\ np_tx = 0
    /\ np_in = <<>>
    /\ np_closed = FALSE
    /\ np_read = 0
    /\ emitted = <<>>
    /\ readers = <<>>
    /\ chans = <<>>
    /\ listening = FALSE
    /\ np_result = NpResult("", TRUE, "")
    /\ np_calls = 0

\* UsbmuxdConnection::new(socket, tag); socket = "none": no such connection
InitUsbmuxdConnection(socket, tags) ==
    /\ mux_socket = socket
    /\ mux_tag \in tags
    /\ mux_open = (socket # "none")
    /\ idevice = "none"
    /\ mux_out = <<>>
    /\ mux_result = NoMuxResult
    /\ mux_final = -1
    /\ mux_loop = NotInLoop
    /\ mux_calls = 0

\* ScreenshotClient::connect; pc = "none": no such client
InitScreenshotClient(at) ==
    /\ ss_pc = at
    /\ ss_out = <<>>
    /\ ss_in = <<>>
    /\ ss_sent = <<>>
    /\ ss_reads = 0
    /\ ss_result = NoShotResult
    /\ ss_calls = 0

InitFileRelayClient(at) ==
    /\ fr_pc = at
    /\ fr_out = <<>>
    /\ fr_in = <<>>
    /\ fr_sent = <<>>
    /\ fr_reply = NoPlist
    /\ fr_length = -1
    /\ fr_blob = 0
    /\ fr_result = NoRelayResult
    /\ fr_calls = 0

InitDiagnosticsClient(at) ==
    /\ dg_pc = at
    /\ dg_out = <<>>
    /\ dg_in = <<>>
    /\ dg_sent = <<>>
    /\ dg_reply = NoPlist
    /\ dg_result = NoDiagResult
    /\ dg_calls = 0

\* AfcClient::connect succeeded: the client owns the service's socket.
InitAfc ==
    /\ InitStreams
    /\ InitAfcClient("device")
    /\ InitHouseArrestClient("none")
    /\ InitNotificationProxyClient
    /\ InitUsbmuxdConnection("none", {0})
    /\ InitScreenshotClient("none")
    /\ InitFileRelayClient("none")
    /\ InitDiagnosticsClient("none")

NextAfc ==
    \/ read_directory_call
    \/ read_directory_recv
    \/ read_file_call
    \/ read_file_opened
    \/ read_file_chunk
    \/ read_file_closed
    \/ write_file_call
    \/ write_file_opened
    \/ write_file_chunk
    \/ write_file_closed
    \/ receive_response_malformed

Spec == InitAfc /\ [][NextAfc]_vars

\* An AfcClient that is used for read_file only.
NextReadFile ==
    \/ read_file_call
    \/ read_file_opened
    \/ read_file_chunk
    \/ read_file_closed

SpecReadFile == InitAfc /\ [][NextReadFile]_vars

\* An AfcClient whose read_directory calls can be cancelled.
NextCancel ==
    \/ read_directory_call
    \/ read_directory_recv
    \/ read_directory_cancelled
    \/ receive_response_cancelled

SpecCancel == InitAfc /\ [][NextCancel]_vars

\* An AfcClient that is used for write_file only.
NextWriteFile ==
    \/ write_file_call
    \/ write_file_opened
    \/ write_file_chunk
    \/ write_file_closed

SpecWriteFile == InitAfc /\ [][NextWriteFile]_vars

\* An AfcClient that is used for the path and info operations only.
NextPaths ==
    \/ read_directory_call
    \/ read_directory_recv
    \/ get_device_info_call
    \/ get_device_info_recv
    \/ get_file_info_call
    \/ get_file_info_recv
    \/ make_directory_call
    \/ make_directory_recv
    \/ remove_path_call
    \/ remove_path_recv
    \/ rename_path_call
    \/ rename_path_recv

SpecPaths == InitAfc /\ [][NextPaths]_vars

\* An AfcClient that writes and reads files on a device that follows the
\* protocol.
NextDevice ==
    \/ write_file_call
    \/ read_file_call
    \/ receive_response_aborts
    \/ receive_response_closed
    \/ receive_response_cancelled

SpecDevice == InitAfc /\ [][NextDevice]_vars

\* HouseArrestClient::connect succeeded; no AfcClient exists yet.
InitHouseArrest ==
    /\ InitStreams
    /\ InitAfcClient("none")
    /\ InitHouseArrestClient("device")
    /\ InitNotificationProxyClient
    /\ InitUsbmuxdConnection("none", {0})
    /\ InitScreenshotClient("none")
    /\ InitFileRelayClient("none")
    /\ InitDiagnosticsClient("none")

NextHouseArrest ==
    \/ documents
    \/ container
    \/ list_installed_applications
    \/ get_application_info
    \/ read_directory_call
    \/ read_directory_recv

SpecHouseArrest == InitHouseArrest /\ [][NextHouseArrest]_vars

\* NotificationProxyClient::connect succeeded.
InitNP ==
    /\ InitStreams
    /\ InitAfcClient("none")
    /\ InitHouseArrestClient("none")
    /\ InitNotificationProxyClient
    /\ InitUsbmuxdConnection("none", {0})
    /\ InitScreenshotClient("none")
    /\ InitFileRelayClient("none")
    /\ InitDiagnosticsClient("none")

NextNP ==
    \/ observe_notification
    \/ observe_notifications
    \/ post_notification
    \/ start_listening
    \/ stop_listening
    \/ reader_read
    \/ reader_send
    \/ caller_recv
    \/ caller_drop
    \/ device_emit
    \/ device_close

SpecNP == InitNP /\ [][NextNP]_vars

\* A NotificationProxyClient that posts while one listener runs.
NextPost ==
    \/ post_notification
    \/ start_listening
    \/ reader_read
    \/ reader_send
    \/ caller_recv
    \/ device_emit

SpecPost == InitNP /\ [][NextPost]_vars

\* A NotificationProxyClient with one listener, started once and never
\* stopped.
NextListen ==
    \/ observe_notification
    \/ start_listening
    \/ reader_read
    \/ reader_send
    \/ caller_recv
    \/ device_emit
    \/ device_close

SpecListen == InitNP /\ [][NextListen]_vars

\* A NotificationProxyClient whose listening is started and stopped.
NextStartStop ==
    \/ start_listening
    \/ stop_listening
    \/ reader_read
    \/ reader_send
    \/ device_emit

SpecStartStop == InitNP /\ [][NextStartStop]_vars

\* One listener, and a device that sends other frames between the NP frames.
NextFrames ==
    \/ start_listening
    \/ reader_read
    \/ reader_send
    \/ caller_recv
    \/ device_emit
    \/ device_emit_other

SpecFrames == InitNP /\ [][NextFrames]_vars

\* UsbmuxdAddr::connect(tag) succeeded.
InitUsbmuxd ==
    /\ InitStreams
    /\ InitAfcClient("none")
    /\ InitHouseArrestClient("none")
    /\ InitNotificationProxyClient
    /\ InitUsbmuxdConnection("muxd", Tags)
    /\ InitScreenshotClient("none")
    /\ InitFileRelayClient("none")
    /\ InitDiagnosticsClient("none")

NextUsbmuxd ==
    \/ get_devices
    \/ get_devices_next
    \/ get_devices_done
    \/ get_pair_record
    \/ get_buid
    \/ connect_to_device

SpecUsbmuxd == InitUsbmuxd /\ [][NextUsbmuxd]_vars

\* ScreenshotClient::connect succeeded.
InitScreenshot ==
    /\ InitStreams
    /\ InitAfcClient("none")
    /\ InitHouseArrestClient("none")
    /\ InitNotificationProxyClient
    /\ InitUsbmuxdConnection("none", {0})
    /\ InitScreenshotClient("idle")
    /\ InitFileRelayClient("none")
    /\ InitDiagnosticsClient("none")

NextScreenshot ==
    \/ take_screenshot_call
    \/ take_screenshot_recv
    \/ screenshot_service_send

SpecScreenshot == InitScreenshot /\ [][NextScreenshot]_vars

\* FileRelayClient::connect succeeded; no other client exists.
InitFileRelay ==
    /\ InitStreams
    /\ InitAfcClient("none")
    /\ InitHouseArrestClient("none")
    /\ InitNotificationProxyClient
    /\ InitUsbmuxdConnection("none", {0})
    /\ InitScreenshotClient("none")
    /\ InitFileRelayClient("idle")
    /\ InitDiagnosticsClient("none")

NextFileRelay ==
    \/ request_files_call
    \/ request_files_recv
    \/ request_files_length
    \/ request_files_data
    \/ relay_service_send

SpecFileRelay == InitFileRelay /\ [][NextFileRelay]_vars

\* DiagnosticsClient::connect succeeded; no other client exists.
InitDiagnostics ==
    /\ InitStreams
    /\ InitAfcClient("none")
    /\ InitHouseArrestClient("none")
    /\ InitNotificationProxyClient
    /\ InitUsbmuxdConnection("none", {0})
    /\ InitScreenshotClient("none")
    /\ InitFileRelayClient("none")
    /\ InitDiagnosticsClient("idle")

NextDiagnostics ==
    \/ request_diagnostics_call
    \/ request_diagnostics_recv
    \/ diagnostics_service_send

SpecDiagnostics == InitDiagnostics /\ [][NextDiagnostics]_vars


\* ------------------------------------------------------------- claims
\* The requests the AfcClient wrote on its socket, in order.
AfcRequests == IF afc_socket = "none" THEN <<>> ELSE wire[afc_socket]

\* The packet_number word of a request: bytes 16..24 of its header.
PacketNumberField(frame) == Take(Drop(frame.bytes, 16), 8)

\* a < b for two 64-bit words given as their 8 little-endian bytes
U64LessLE(a, b) ==
    LET x == Bytes(a)
        y == Bytes(b)
    IN  \E i \in 1..8 : x[i] < y[i] /\ \A j \in (i + 1)..8 : x[j] = y[j]

\* The payload of a request: what follows its 40-byte header.
Payload(frame) == Drop(frame.bytes, 40)

\* C1: of any two requests one AfcClient sent, the later one carries a
\* strictly larger packet_number in its header than the earlier one.
C1_PacketNumberIncreases ==
    \A i, j \in 1..Len(AfcRequests) :
        i < j => U64LessLE(PacketNumberField(AfcRequests[i]),
                           PacketNumberField(AfcRequests[j]))

\* C2: when read_file or write_file has returned after FileRefOpen gave it
\* a handle, by whatever exit, it has sent a FileRefClose for that handle.
C2_OpenedHandleClosed ==
    (pc = "idle" /\ loc.op \in {"read_file", "write_file"} /\ loc.file_handle # NoHandle)
        => \E k \in (loc.start + 1)..Len(AfcRequests) :
               /\ AfcRequests[k].operation = FileRefClose
               /\ Payload(AfcRequests[k]) = u64_to_le_bytes(loc.file_handle)

\* A reply with operation STATUS whose 8-byte error code is not zero.
StatusError(r) ==
    /\ r.operation = Status
    /\ BLen(r.data) >= 8
    /\ Take(r.data, 8) # to_le_bytes(0)

\* C3: a STATUS reply with a non-zero error code makes the operation that
\* awaited it return an AfcError; it is never taken as a payload.
C3_StatusErrorIsAfcError ==
    StatusError(last_reply)
        => (pc = "idle" /\ ~result.ok /\ result.err = "AfcError")

\* C4: the FILE_REF_OPEN payload is the 8-byte little-endian mode, then the
\* path, then one NUL; mode 1 for read_file, mode 3 for write_file.
C4_OpenPayloadModeThenPath ==
    \A k \in 1..Len(AfcRequests) :
        (k > loc.start /\ AfcRequests[k].operation = FileRefOpen)
            => Payload(AfcRequests[k]) =
                   Cat(to_le_bytes(IF loc.op = "read_file" THEN 1 ELSE 3),
                       Cat(loc.path, Lit(<<0>>)))

\* A frame that starts with the AFC header's entire_length: an 8-byte word
\* holding the length of the whole frame, header included.
StartsWithEntireLength(bytes) ==
    /\ BLen(bytes) >= 40
    /\ Take(bytes, 8) \in {write_u64(BLen(bytes)), to_le_bytes(BLen(bytes))}

\* A frame that starts with the plist framing's 4-byte big-endian length.
StartsWithPlistLength(bytes) ==
    /\ BLen(bytes) >= 4
    /\ Take(bytes, 4) = to_be_bytes(BLen(bytes) - 4)

\* C5: after documents or container received Status Complete, the next
\* frame written on the device stream starts with the 8-byte entire_length
\* of an AFC header, not with a 4-byte plist length.
C5_AfcHeaderAfterComplete ==
    (mark.complete >= 0 /\ Len(wire["device"]) > mark.complete)
        => LET next == wire["device"][mark.complete + 1].bytes
           IN  StartsWithEntireLength(next) /\ ~StartsWithPlistLength(next)

\* C5 witness: the hand-off happened and the AfcClient sent a packet.
C5_Witness ==
    /\ mark.complete >= 0
    /\ Len(wire["device"]) > mark.complete
    /\ wire["device"][mark.complete + 1].engine = "afc"

\* C6: at most one engine holds the device stream; after a hand-off it is
\* the AfcClient, and nothing the HouseArrestClient does later is written
\* to or read from that stream.
C6_ExclusiveChannel ==
    /\ ~(ha_socket = "device" /\ afc_socket = "device")
    /\ afc_socket # "none" =>
         /\ afc_socket = "device"
         /\ ha_socket # "device"
         /\ \A k \in (mark.complete + 1)..Len(wire["device"]) :
                wire["device"][k].engine = "afc"
         /\ \A k \in (mark.reads + 1)..Len(rlog["device"]) :
                rlog["device"][k] = "afc"

\* C6 witness: after the hand-off the HouseArrestClient made another call
\* that wrote its frame and read a reply, and the AfcClient used its stream.
C6_Witness ==
    /\ afc_socket = "device"
    /\ Len(wire["dummy"]) > 0
    /\ Len(rlog["dummy"]) > 0
    /\ Len(wire["device"]) > mark.complete

\* C7: when the device answers VendDocuments or VendContainer with Status
\* Complete and no Error, the call returns Ok and an AfcClient owns the
\* device stream, whatever else happens.
C7_HandoffSucceedsOnComplete ==
    (/\ ha_result.op \in {"documents", "container"}
     /\ ha_result.from = "device"
     /\ ha_result.reply.Status = Str("Complete")
     /\ ha_result.reply.Error = Absent)
        => (ha_result.ok /\ afc_socket = "device")

\* The reader tasks that have not left their loop.
LiveReaders == { i \in 1..Len(readers) : readers[i].pc # "exited" }

\* C8: never more than one reader task is alive on the connection, and
\* between a successful start_listening and the following stop_listening
\* (the connection still open) exactly one is.
C8_OneReader ==
    /\ Cardinality(LiveReaders) <= 1
    /\ (listening /\ ~np_closed) => Cardinality(LiveReaders) = 1

\* The names a listener on channel c is to receive: those of the NP frames
\* the device emitted that were still unread when the listener started.
Expected(c) ==
    LET idx == { k \in 1..Len(emitted) : emitted[k].off >= chans[c].start }
        first == Len(emitted) - Cardinality(idx) + 1
    IN  [k \in 1..Cardinality(idx) |-> emitted[first + k - 1].name]

\* The names the listener on channel c has received, in order.
DeliveredNames(c) ==
    [k \in 1..Len(chans[c].delivered) |-> as_str(chans[c].delivered[k])]

IsPrefix(a, b) == Len(a) <= Len(b) /\ a = SubSeq(b, 1, Len(a))

\* Nothing is in flight: every byte the device sent has been read, no reader
\* holds part of a frame or a notification, and channel c is drained.
Quiescent(c) ==
    /\ np_in = <<>>
    /\ \A i \in 1..Len(readers) :
           readers[i].pc \in {"command", "exited"} /\ readers[i].buf = <<>>
    /\ chans[c].queue = <<>>

\* C9: the live listener receives the NP frames the device emits, in the
\* device's order, none lost, duplicated or out of place.
C9_ListenerSeesDeviceOrder ==
    \A c \in 1..Len(chans) :
        (listening /\ np_rx = c /\ chans[c].caller_rx)
            => /\ IsPrefix(DeliveredNames(c), Expected(c))
               /\ Quiescent(c) => DeliveredNames(c) = Expected(c)

\* The complete ON frames written for notification t.
ObserveFrames(t) ==
    { k \in 1..Len(wire["device"]) :
        /\ wire["device"][k].engine = "notification_proxy"
        /\ wire["device"][k].bytes = Concat(NpWrites(ObserveCommand, t)) }

\* C10: over the lifetime of the connection at most one ON frame is sent
\* per notification name.
C10_OneObservePerName ==
    \A t \in NotificationTypes : Cardinality(ObserveFrames(t)) <= 1

\* C11: once stop_listening has returned, the receiver start_listening handed
\* out gets nothing the device sent afterwards: it has received at most as
\* many notifications as the device had emitted when the listener stopped.
C11_NothingDeliveredAfterStop ==
    \A c \in 1..Len(chans) :
        chans[c].stopped >= 0 => Len(chans[c].delivered) <= chans[c].stopped

\* The error connect_to_device is to return for a Number value; "" for none.
NumberError(n) ==
    CASE n = Integer(0) -> ""
      [] n = Integer(1) -> "UsbBadCommand"
      [] n = Integer(2) -> "UsbBadDevice"
      [] n = Integer(3) -> "UsbConnectionRefused"
      [] n = Integer(6) -> "UsbBadVersion"
      [] OTHER -> "UnexpectedResponse"

\* C12: connect_to_device maps Number 0 to success, 1, 2, 3 and 6 to
\* UsbBadCommand, UsbBadDevice, UsbConnectionRefused and UsbBadVersion, and
\* any other, non-integer or missing Number to UnexpectedResponse; an Idevice
\* is returned only for Number 0.
C12_ConnectNumberMapping ==
    /\ (mux_result.op = "connect_to_device" /\ mux_result.answered)
         => /\ mux_result.err = NumberError(mux_result.in.number)
            /\ mux_result.ok <=> (mux_result.in.number = Integer(0))
            /\ (idevice # "none") <=> (mux_result.in.number = Integer(0))
    /\ idevice # "none"
         => /\ mux_result.op = "connect_to_device"
            /\ mux_result.answered
            /\ mux_result.in.number = Integer(0)

\* C12 witness: the multiplexer answered Connect with Number 0 and the
\* Idevice holds the socket.
C12_Witness ==
    /\ mux_result.op = "connect_to_device"
    /\ mux_result.in.number = Integer(0)
    /\ mux_result.ok
    /\ idevice = "muxd"

\* C13: once connect_to_device has been invoked, no further request is
\* written on that connection and the UsbmuxdConnection holds no socket; on
\* success the socket belongs to the Idevice alone, on failure it is closed.
C13_ConnectIsFinal ==
    mux_final >= 0
        => /\ mux_result.op = "connect_to_device"
           /\ Len(mux_out) = mux_final
           /\ mux_socket = "none"
           /\ IF mux_result.ok THEN idevice = "muxd" /\ mux_open
                               ELSE idevice = "none" /\ ~mux_open

\* C13 witness: Connect was answered Number 3 (refused) while the caller
\* had calls left to make.
C13_Witness ==
    /\ mux_final >= 0
    /\ mux_result.in.number = Integer(3)
    /\ mux_result.err = "UsbConnectionRefused"
    /\ mux_calls < MaxMuxCalls
    /\ ~mux_open

\* The Connect request the last call wrote, if it wrote one.
ConnectWritten ==
    /\ mux_result.op = "connect_to_device"
    /\ Len(mux_out) > 0
    /\ mux_out[Len(mux_out)].plist.MessageType = "Connect"

\* C14: the PortNumber of a Connect request for port p is
\* (p mod 256) * 256 + p div 256, and its DeviceID is the device_id given.
C14_PortNumberSwapped ==
    ConnectWritten
        => LET p == mux_result.in.port
               req == mux_out[Len(mux_out)].plist
           IN  /\ req.PortNumber = (p % 256) * 256 + p \div 256
               /\ req.DeviceID = mux_result.in.device_id

\* C14 witness: the request for (device_id 42, port 0x1234) carries 0x3412.
C14_Witness ==
    /\ ConnectWritten
    /\ mux_result.in.port = 4660
    /\ mux_result.in.device_id = 42
    /\ mux_out[Len(mux_out)].plist.PortNumber = 13330

\* C15: a response is returned to a call as its answer only if the tag in
\* the response's header is the tag the call's request was sent with.
C15_ResponseTagMatches ==
    mux_result.answered => mux_result.tag = mux_out[Len(mux_out)].tag

\* get_devices has returned on a ListDevices response; the DeviceList it
\* went through, as far as it got.
GetDevicesReturned == mux_result.op = "get_devices" /\ mux_result.answered
DeviceList == mux_result.in.device_list

IsNetwork(dev) == dev.connection_type = NetworkText
HasFamily(dev, f) ==
    IsNetwork(dev) /\ dev.has_address /\ Len(dev.network_address) > 0
        /\ dev.network_address[1] = f

\* A Network device with no address blob, or with one that is too short for
\* the family it names.
Truncated(dev) ==
    \/ IsNetwork(dev) /\ ~dev.has_address
    \/ HasFamily(dev, 2) /\ Len(dev.network_address) < 8
    \/ HasFamily(dev, 30) /\ Len(dev.network_address) < 24

\* A Network device whose (non-empty) address blob names another family.
OtherFamily(dev) ==
    /\ IsNetwork(dev) /\ dev.has_address /\ Len(dev.network_address) > 0
    /\ dev.network_address[1] \notin {2, 30}

\* A USB device, a Network device with a full IPv4 or IPv6 blob, or a device
\* of another connection type.
Plain(dev) ==
    \/ ~IsNetwork(dev)
    \/ HasFamily(dev, 2) /\ Len(dev.network_address) >= 8
    \/ HasFamily(dev, 30) /\ Len(dev.network_address) >= 24

\* The connection kind the device is to get (other families: see C18).
KindMatches(dev, c) ==
    IF dev.connection_type = UsbText THEN c = Usb
    ELSE IF HasFamily(dev, 2)
    THEN c = Network(SubSeq(dev.network_address, 5, 8))
    ELSE IF HasFamily(dev, 30)
    THEN c = Network([g \in 1..8 |-> dev.network_address[2 * g + 7] * 256
                                       + dev.network_address[2 * g + 8]])
    ELSE IF IsNetwork(dev) THEN TRUE
    ELSE c = Unknown(dev.connection_type)

\* C16: get_devices returns one record per device of the DeviceList, in the
\* list's order, with udid = SerialNumber, device_id = DeviceID and the
\* connection kind of the device: Usb, the IPv4 address of blob bytes 4..8,
\* the IPv6 address of blob bytes 8..24, or Unknown(t) for another type t.
C16_DeviceListParsed ==
    /\ (GetDevicesReturned /\ \A k \in 1..Len(DeviceList) : Plain(DeviceList[k]))
         => mux_result.ok
    /\ (GetDevicesReturned /\ mux_result.ok)
         => /\ Len(mux_result.val) = Len(DeviceList)
            /\ \A k \in 1..Len(DeviceList) :
                 /\ mux_result.val[k].udid = DeviceList[k].serial_number
                 /\ mux_result.val[k].device_id = DeviceList[k].device_id
                 /\ KindMatches(DeviceList[k], mux_result.val[k].connection_type)

\* C16 witness: an IPv4 device followed by an IPv6 device came out as
\* 192.168.1.7 and fe80:1:2:3:4:5:6:107, in that order.
C16_Witness ==
    /\ GetDevicesReturned
    /\ mux_result.ok
    /\ Len(mux_result.val) = 2
    /\ mux_result.val[1].connection_type = Network(<<192, 168, 1, 7>>)
    /\ mux_result.val[2].connection_type = Network(<<65152, 1, 2, 3, 4, 5, 6, 263>>)

\* C17: if a device of the DeviceList is a Network device with a truncated
\* or missing address blob, get_devices returns UnexpectedResponse and no
\* device at all.
C17_TruncatedFailsWhole ==
    (GetDevicesReturned /\ \E k \in 1..Len(DeviceList) : Truncated(DeviceList[k]))
        => /\ ~mux_result.ok
           /\ mux_result.err = "UnexpectedResponse"
           /\ mux_result.val = <<>>

\* C17 witness: a USB device came first, a truncated IPv6 device second.
C17_Witness ==
    /\ GetDevicesReturned
    /\ Len(DeviceList) = 2
    /\ DeviceList[1].connection_type = UsbText
    /\ DeviceList[2].network_address = AddrV6Short
    /\ mux_result.err = "UnexpectedResponse"

\* The two upper-case hexadecimal digits of a byte.
HexChars == <<48, 49, 50, 51, 52, 53, 54, 55, 56, 57, 65, 66, 67, 68, 69, 70>>
NetworkHex(b) ==
    NetworkText \o <<32, HexChars[(b \div 16) + 1], HexChars[(b % 16) + 1]>>

\* The devices of another family come out as Unknown("Network <hex>").
OtherFamiliesUnknown ==
    \A k \in 1..Len(DeviceList) :
        OtherFamily(DeviceList[k])
            => mux_result.val[k].connection_type =
                   Unknown(NetworkHex(DeviceList[k].network_address[1]))

\* C18, as claimed: a Network device of another family, whatever the length
\* of its non-empty blob, comes out as Unknown("Network <hex>") and the list
\* is returned.
C18_OtherFamilyAnyLength ==
    (/\ GetDevicesReturned
     /\ \A k \in 1..Len(DeviceList) : Plain(DeviceList[k]) \/ OtherFamily(DeviceList[k]))
        => mux_result.ok /\ OtherFamiliesUnknown

\* C18, amended: that holds for blobs of at least 8 bytes; a shorter blob
\* makes get_devices return UnexpectedResponse, whatever its family byte.
C18_OtherFamilyFullLength ==
    /\ (/\ GetDevicesReturned
        /\ \A k \in 1..Len(DeviceList) :
               \/ Plain(DeviceList[k])
               \/ OtherFamily(DeviceList[k]) /\ Len(DeviceList[k].network_address) >= 8)
         => mux_result.ok /\ OtherFamiliesUnknown
    /\ (/\ GetDevicesReturned
        /\ \E k \in 1..Len(DeviceList) :
               OtherFamily(DeviceList[k]) /\ Len(DeviceList[k].network_address) < 8)
         => ~mux_result.ok /\ mux_result.err = "UnexpectedResponse"

\* C18 witness: a device of family 0xAF came out as Unknown("Network AF").
C18_Witness ==
    /\ GetDevicesReturned
    /\ mux_result.ok
    /\ \E k \in 1..Len(DeviceList) :
           /\ DeviceList[k].network_address = AddrOther
           /\ mux_result.val[k].connection_type =
                  Unknown(<<78, 101, 116, 119, 111, 114, 107, 32, 65, 70>>)

\* The FileRefRead requests the running (or last) operation has sent.
ReadRequests ==
    Cardinality({ k \in (loc.start + 1)..Len(AfcRequests) :
                    AfcRequests[k].operation = FileRefRead })

\* C19: read_file sends a further FileRefRead only after a response of the
\* full chunk size; a shorter or empty response ends the loop.  The content
\* returned is the responses of the loop in order, it took one read more
\* than the content has full chunks, and when the size is a multiple of the
\* chunk size the last read returned nothing.
C19_ReadLoopTerminates ==
    loc.op = "read_file"
        => /\ \A i \in 1..(Len(loc.chunks) - 1) : BLen(loc.chunks[i]) = chunk_size
           /\ ReadRequests <= Len(loc.chunks) + 1
           /\ (Len(loc.chunks) > 0 /\ BLen(loc.chunks[Len(loc.chunks)]) < chunk_size)
                => ReadRequests = Len(loc.chunks)
           /\ (pc = "idle" /\ result.ok)
                => /\ result.val = Concat(loc.chunks)
                   /\ ReadRequests = (BLen(result.val) \div chunk_size) + 1
                   /\ BLen(result.val) % chunk_size = 0
                        => loc.chunks[Len(loc.chunks)] = <<>>

\* C19 witness: chunks of 65536 and 1000 bytes gave 66536 bytes after two
\* reads.
C19_Witness ==
    /\ loc.op = "read_file"
    /\ pc = "idle"
    /\ result.ok
    /\ Len(loc.chunks) = 2
    /\ BLen(loc.chunks[1]) = chunk_size
    /\ BLen(loc.chunks[2]) = 1000
    /\ BLen(result.val) = 66536
    /\ ReadRequests = 2

\* C20: on the AfcClient's connection the requests sent exceed the responses
\* consumed by at most one, at every moment.
C20_OneOutstandingRequest ==
    afc_socket = "device"
        => Len(wire["device"]) - Len(rlog["device"]) \in {0, 1}

\* The header of a request, the payload length it was built for.
HeaderBytes(frame) == Take(frame.bytes, 40)
PayloadLen(frame) == BLen(frame.bytes) - 40

\* C24: every header the AfcClient emits is 40 bytes long, has
\* entire_length = 40 + n for the n payload bytes that follow it,
\* this_length = entire_length and a reserved word of 0, and deserializes
\* to the entire_length, this_length, packet_num and operation it was
\* serialized from.
C24_HeaderRoundTrip ==
    \A k \in 1..Len(AfcRequests) :
        LET frame == AfcRequests[k]
            h == AfcPacketHeader_new(frame.operation, PayloadLen(frame))
            d == deserialize(HeaderBytes(frame))
        IN  /\ BLen(serialize(h)) = 40
            /\ HeaderBytes(frame) = serialize(h)
            /\ d.entire_length = 40 + PayloadLen(frame)
            /\ d.this_length = d.entire_length
            /\ Take(Drop(frame.bytes, 32), 8) = Zeros(8)
            /\ d = h

\* C24 witness: a request without payload and one with 7 payload bytes have
\* been emitted.
C24_Witness ==
    /\ Len(AfcRequests) = 2
    /\ AfcRequests[1].operation = GetDeviceInfo
    /\ PayloadLen(AfcRequests[1]) = 0
    /\ AfcRequests[2].operation = RenamePath
    /\ PayloadLen(AfcRequests[2]) = 7

\* C25: the five words of every header the AfcClient writes are in
\* little-endian byte order, least significant byte first.
C25_HeaderLittleEndian ==
    \A k \in 1..Len(AfcRequests) :
        LET frame == AfcRequests[k]
            h == AfcPacketHeader_new(frame.operation, PayloadLen(frame))
        IN  /\ Take(frame.bytes, 8) = to_le_bytes(h.entire_length)
            /\ Take(Drop(frame.bytes, 8), 8) = to_le_bytes(h.this_length)
            /\ Take(Drop(frame.bytes, 16), 8) = to_le_bytes(h.packet_num)
            /\ Take(Drop(frame.bytes, 24), 8) = to_le_bytes(h.operation)
            /\ Take(Drop(frame.bytes, 32), 8) = to_le_bytes(0)

\* The payload a path operation sends for path: the bytes of path, one NUL.
PathThenNul(path) == Cat(path, Lit(<<0>>))

\* C26: the payload of READ_DIR, GET_FILE_INFO, MAKE_DIR and REMOVE_PATH is
\* the path followed by exactly one NUL, len(path) + 1 bytes; the payload
\* of RENAME_PATH is from, NUL, to, NUL.
C26_PathPayloadNulTerminated ==
    (loc.op \in {"read_directory", "get_file_info", "make_directory",
                 "remove_path", "rename_path"}
        /\ Len(AfcRequests) > loc.start)
    => LET frame == AfcRequests[loc.start + 1] IN
       IF loc.op = "rename_path"
       THEN /\ frame.operation = RenamePath
            /\ Payload(frame) = Cat(PathThenNul(loc.path), PathThenNul(loc.data))
       ELSE /\ frame.operation =
                 (CASE loc.op = "read_directory" -> ReadDir
                    [] loc.op = "get_file_info"  -> GetFileInfo
                    [] loc.op = "make_directory" -> MakeDir
                    [] loc.op = "remove_path"    -> RemovePath)
            /\ Payload(frame) = PathThenNul(loc.path)
            /\ BLen(Payload(frame)) = BLen(loc.path) + 1

\* C26 witness: rename_path("/x", "//y") has sent its request.
C26_Witness ==
    /\ loc.op = "rename_path"
    /\ loc.path = Lit(<<47, 120>>)
    /\ loc.data = Lit(<<47, 47, 121>>)
    /\ Len(AfcRequests) > loc.start
    /\ Payload(AfcRequests[loc.start + 1]) = Lit(<<47, 120, 0, 47, 47, 121, 0>>)

\* The items that precede the first empty one.
RECURSIVE BeforeEmpty(_)
BeforeEmpty(items) ==
    IF items = <<>> \/ items[1] = <<>> THEN <<>>
    ELSE <<items[1]>> \o BeforeEmpty(Tail(items))

\* The key/value pairs of a sequence of tokens: first with second, third
\* with fourth, ...
PairsOf(tokens) ==
    { <<tokens[2 * j - 1], tokens[2 * j]>> : j \in 1..(Len(tokens) \div 2) }

\* C29: get_file_info and get_device_info return exactly the key/value
\* pairs that precede the first empty token of the response, and nothing
\* that follows it.
C29_InfoStopsAtEmptyToken ==
    (loc.op \in {"get_file_info", "get_device_info"} /\ pc = "idle" /\ result.ok)
    => result.val =
         PairsOf(BeforeEmpty(split(Bytes(receive_response(last_reply)), <<>>)))

\* The requests of the running (or last) operation, in the order sent.
OpRequests == SubSeq(AfcRequests, loc.start + 1, Len(AfcRequests))

\* The FileRefWrite requests among them, in the order sent.
WriteRequests == SelectSeq(OpRequests, LAMBDA f : f.operation = FileRefWrite)

\* The data part of each FileRefWrite request: what follows the handle.
WrittenParts == [k \in 1..Len(WriteRequests) |-> Drop(Payload(WriteRequests[k]), 8)]

\* The responses the running (or last) operation has consumed.
OpResponses == Len(rlog[afc_socket]) - loc.rstart

\* C27: write_file sends the data as ceil(n / 65536) FileRefWrite requests
\* in order, each the 8-byte handle and at most 65536 data bytes, the parts
\* making up the data; a request is sent only after the response to the
\* one before it; for empty data the open and the close are the only
\* requests.
C27_WriteFileChunks ==
    loc.op = "write_file"
    => /\ \A k \in 1..Len(WriteRequests) :
             /\ Take(Payload(WriteRequests[k]), 8) = u64_to_le_bytes(loc.file_handle)
             /\ BLen(WrittenParts[k]) \in 1..chunk_size
       /\ Len(OpRequests) - OpResponses \in {0, 1}
       /\ (pc # "idle" \/ result.ok)
            => Cat(Concat(WrittenParts), loc.data) = loc.input
       /\ (pc = "wf_close" \/ (pc = "idle" /\ result.ok))
            => /\ Concat(WrittenParts) = loc.input
               /\ Len(WriteRequests) = (BLen(loc.input) + chunk_size - 1) \div chunk_size
               /\ OpRequests[1].operation = FileRefOpen
               /\ OpRequests[Len(OpRequests)].operation = FileRefClose
               /\ Len(OpRequests) = Len(WriteRequests) + 2

\* C27 witness: write_file of 65537 bytes returned Ok after two FileRefWrite
\* requests, of 65536 bytes and of 1 byte.
C27_Witness ==
    /\ loc.op = "write_file"
    /\ pc = "idle"
    /\ result.ok
    /\ BLen(loc.input) = chunk_size + 1
    /\ Len(WriteRequests) = 2
    /\ BLen(WrittenParts[1]) = chunk_size
    /\ BLen(WrittenParts[2]) = 1

\* C27 witness for empty data: write_file returned Ok, nothing but the open
\* and the close were sent.
C27_WitnessEmpty ==
    /\ loc.op = "write_file"
    /\ pc = "idle"
    /\ result.ok
    /\ loc.input = <<>>
    /\ Len(OpRequests) = 2

\* The last AfcClient operation failed on the channel: a read or a write on
\* the socket failed or came up short.
ChannelFailed == pc = "idle" /\ ~result.ok /\ result.err = "Io"

\* C21: once an operation of the AfcClient has failed with an I/O failure,
\* the operation called next writes nothing to the device and returns an
\* I/O error.
C21_FailedChannelStaysClosed ==
    [][ChannelFailed
          => /\ wire' = wire
             /\ pc' = "idle"
             /\ ~result'.ok /\ result'.err = "Io"]_vars

\* C23: a response whose entire_length is below 40 makes the operation that
\* received it return UnexpectedResponse.
C23_ShortLengthIsUnexpectedResponse ==
    last_reply \in MalformedReplies
        => pc = "idle" /\ ~result.ok /\ result.err = "UnexpectedResponse"

\* A request is on the socket in full: its 40 header bytes and as many
\* payload bytes as its entire_length says.
FullyWritten(frame) ==
    /\ BLen(frame.bytes) >= 40
    /\ BLen(frame.bytes) = read_u64(frame.bytes)

\* C22: on the socket of an AfcClient that is open for further operations,
\* every request that was started is there in full, whether its operation
\* ran to the end or was cancelled.
C22_NoPartialFrameOnOpenChannel ==
    (afc_socket # "none" /\ pc = "idle")
        => \A k \in 1..Len(AfcRequests) : FullyWritten(AfcRequests[k])


\* The frames of the messages msgs, one after the other.
RECURSIVE FramesOf(_)
FramesOf(msgs) ==
    IF msgs = <<>> THEN <<>>
    ELSE Cat(Cat(to_be_bytes(BLen(msgs[1].xml)), msgs[1].xml), FramesOf(Tail(msgs)))

C30_WitnessImage ==
    /\ ss_reads = 2
    /\ ss_result.ok
    /\ ss_result.image = <<0, 255>>


\* The files of the device after the requests the AfcClient sent it.
DeviceFiles == device_after(AfcRequests).st.files

\* The operation op has ended; the channel did not fail under it and the
\* caller did not drop it.
Ended(op) ==
    loc.op = op /\ pc \in {"idle", "panicked"} /\ result.err \notin {"Io", "Cancelled"}

\* C28: against a device that follows the protocol, a write_file(p, d)
\* that has ended has succeeded and left d in the file p, and a read_file(p)
\* of a file the device has, once ended, has returned what the file holds;
\* so read_file(p) after write_file(p, d) returns d.
C28_WriteThenReadRoundTrip ==
    /\ Ended("write_file")
         => /\ result.ok
            /\ loc.path \in DOMAIN DeviceFiles
            /\ DeviceFiles[loc.path] = loc.input
    /\ (Ended("read_file") /\ loc.path \in DOMAIN DeviceFiles)
         => /\ result.ok
            /\ result.val = DeviceFiles[loc.path]


\* The frames written on the NotificationProxyClient's socket, in order.
NpRequests == wire["device"]

\* A step in which post_notification returns Ok.
PostReturnsOk ==
    /\ np_calls' = np_calls + 1
    /\ np_result'.op = "post_notification"
    /\ np_result'.ok

\* C31: a post_notification that returns Ok has written one frame, the bytes
\* "PN", then the length of the name as 4 bytes big-endian, then the name,
\* and has read nothing: the inbound bytes, the count of bytes read, the
\* reader tasks and the channels are as they were.
C31_PostWritesOneFrame ==
    [][PostReturnsOk
         => /\ Len(NpRequests') = Len(NpRequests) + 1
            /\ SubSeq(NpRequests', 1, Len(NpRequests)) = NpRequests
            /\ LET bytes == NpRequests'[Len(NpRequests')].bytes IN
                /\ Bytes(Take(bytes, 2)) = <<80, 78>>
                /\ Bytes(Take(Drop(bytes, 2), 3)) = <<0, 0, 0>>
                /\ Bytes(Take(Drop(bytes, 5), 1)) = <<BLen(bytes) - 6>>
                /\ Drop(bytes, 6) \in { as_str(t) : t \in NotificationTypes }
            /\ np_in' = np_in
            /\ np_read' = np_read
            /\ readers' = readers
            /\ chans' = chans]_vars

\* post_notification has returned Ok while a frame of the device is waiting
\* for the reader task.
C31_Witness ==
    /\ np_result.op = "post_notification"
    /\ np_result.ok
    /\ np_in # <<>>
    /\ Len(readers) = 1
    /\ \E i \in 1..Len(NpRequests) : NpRequests[i].operation = "PN"


\* What the listener of channel c has been given so far: the values its
\* caller received, then those waiting in the channel.
Yielded(c) == chans[c].delivered \o chans[c].queue

\* C32: with one listener, the k-th value the channel yields is equal to the
\* notification value whose name the device emitted k-th; so
\* from_str(as_str(t)) = t for every value t.
C32_ListenerYieldsObservedValue ==
    \A c \in 1..Len(chans) :
        /\ Len(Yielded(c)) <= Len(emitted)
        /\ \A k \in 1..Len(Yielded(c)) : Yielded(c)[k] = emitted[k].of


\* A step in which start_listening returns.
StartListeningReturns ==
    /\ np_calls' = np_calls + 1
    /\ np_result'.op = "start_listening"

\* C37: start_listening on a client that is listening returns
\* NotificationProxyError, and the reader tasks, the channels and the
\* client's two channel ends are as they were.
C37_SecondStartRejected ==
    [][(StartListeningReturns /\ listening)
         => /\ ~np_result'.ok
            /\ np_result'.err = "NotificationProxyError"
            /\ readers' = readers
            /\ chans' = chans
            /\ np_rx' = np_rx
            /\ np_tx' = np_tx
            /\ listening']_vars

\* start_listening was rejected while the one listener ran, and that
\* listener's channel was given a notification afterwards.
C37_Witness ==
    /\ np_result.op = "start_listening"
    /\ ~np_result.ok
    /\ listening
    /\ Len(readers) = 1
    /\ Len(chans) = 1
    /\ np_calls = 2
    /\ emitted # <<>>
    /\ chans[1].queue # <<>>
    /\ readers[1].pc = "command"

\* C38: after a start_listening that failed on a client that was not
\* listening, the client holds no receiver, so the next start_listening is
\* not rejected as already listening.
C38_FailedStartLeavesNotListening ==
    (np_result.op = "start_listening" /\ ~np_result.ok /\ ~listening)
        => ~already_listening


\* Where in the inbound stream the frames of the device begin.
FrameStarts == { emitted[k].off : k \in 1..Len(emitted) }

\* The frames that began before byte offset `at` of the inbound stream.
FramesBefore(at) == Cardinality({ k \in 1..Len(emitted) : emitted[k].off < at })

\* C39: every reader task reads its commands where a frame begins, so no
\* frame has its bytes taken by two tasks; and while a listening session is
\* current, the channel of an earlier, stopped session holds no frame that
\* the device sent after the current session began.
C39_OneTaskConsumesFrames ==
    /\ \A i \in 1..Len(readers) :
           readers[i].at = -1 \/ readers[i].at \in FrameStarts
    /\ \A d \in 1..Len(chans) :
           (listening /\ np_rx # d /\ chans[d].stopped >= 0)
               => Len(Yielded(d)) <= FramesBefore(chans[np_rx].start)


\* The values to be published for the frames the device sent: one for
\* every NP frame with a UTF-8 name, in the device's order.
RECURSIVE Published(_)
Published(frames) ==
    IF frames = <<>> THEN <<>>
    ELSE (IF frames[1].publish THEN <<from_str(frames[1].name)>> ELSE <<>>)
           \o Published(Tail(frames))

\* Reader i is at the top of its loop and holds nothing.
AtLoopTop(i) == readers[i].pc = "command" /\ readers[i].buf = <<>>

\* C40: the one reader task publishes, in order, the NP frames with a UTF-8
\* name and nothing else; once it has read all the device sent, every one
\* of them has been published under its name, whatever frames came between.
C40_OtherFramesKeepAlignment ==
    \A i \in 1..Len(readers) :
        /\ IsPrefix(Yielded(readers[i].chan), Published(emitted))
        /\ (np_in = <<>> /\ AtLoopTop(i))
              => Yielded(readers[i].chan) = Published(emitted)


\* The first 8 bytes of a response payload, one by one.
HandleBytes(response) == [i \in 1..8 |-> Bytes(Take(response, 8))[i]]

\* C35: in read_file, the handle is the first 8 bytes of the open response;
\* every FileRefRead, when it has been sent, carries it, followed by the
\* chunk size, and the FileRefClose carries it alone; a run that returns Ok has sent one
\* FileRefOpen, then one or more FileRefRead, then one FileRefClose; an
\* open response of fewer than 8 bytes gives AfcError with the FileRefOpen
\* the only request sent.
C35_ReadFileRequestOrder ==
    loc.op = "read_file"
    => /\ (pc = "rf_read" /\ loc.chunks = <<>>)
            => loc.file_handle = HandleBytes(receive_response(last_reply))
       /\ LET requests == OpRequests
               last == requests[Len(requests)]
               handle == u64_to_le_bytes(loc.file_handle)
           IN  /\ (requests # <<>> /\ last.operation = FileRefRead)
                     => Payload(last) = Cat(handle, Lit(<<0, 0, 1, 0, 0, 0, 0, 0>>))
               /\ (requests # <<>> /\ last.operation = FileRefClose)
                     => Payload(last) = handle
       /\ (pc = "idle" /\ result.ok)
            => LET requests == OpRequests IN
               /\ Len(requests) >= 3
               /\ requests[1].operation = FileRefOpen
               /\ \A k \in 2..(Len(requests) - 1) :
                      requests[k].operation = FileRefRead
               /\ requests[Len(requests)].operation = FileRefClose
       /\ (pc = "idle" /\ result.err = "AfcError")
            => /\ Len(OpRequests) = 1
               /\ OpRequests[1].operation = FileRefOpen
               /\ BLen(receive_response(last_reply)) < 8
               /\ loc.file_handle = NoHandle

\* read_file returned Ok after an open response that began with eight
\* bytes 98, a full chunk and a short one: open, two reads, close.
C35_Witness ==
    /\ loc.op = "read_file"
    /\ pc = "idle"
    /\ result.ok
    /\ loc.file_handle = [i \in 1..8 |-> 98]
    /\ Len(OpRequests) = 4
    /\ BLen(result.val) = chunk_size + 1000

\* read_file returned AfcError on an open response without payload.
C35_WitnessShort ==
    /\ loc.op = "read_file"
    /\ pc = "idle"
    /\ result.err = "AfcError"
    /\ last_reply.operation = Data
    /\ last_reply.data = <<>>


\* A request whose header and payload are on the socket to the last byte:
\* it is as long as the entire_length its header announces.
CompletelyWritten(frame) ==
    /\ BLen(frame.bytes) >= 40
    /\ BLen(frame.bytes) = deserialize(Take(frame.bytes, 40)).entire_length

\* C36: packet_num of the AfcClient is the number of requests whose header
\* and payload were completely written on its socket; a request that failed
\* or was abandoned part-way and a response that was received do not count.
C36_CounterCountsWrittenPackets ==
    afc_socket # "none"
    => packet_num = Cardinality({k \in 1..Len(AfcRequests) :
                                    CompletelyWritten(AfcRequests[k])})

\* One request was written whole and answered, the next was abandoned
\* after its header: the counter is 1.
C36_Witness ==
    /\ afc_socket # "none"
    /\ packet_num = 1
    /\ Len(AfcRequests) = 2
    /\ BLen(AfcRequests[2].bytes) = 40
    /\ Len(rlog[afc_socket]) = 1
    /\ pc = "idle"


\* The plist reply of the running (or last) request_files call has Status
\* "Complete", and no Error key.
RepliedComplete ==
    /\ fr_reply.ok
    /\ get(fr_reply.dict, StatusKey).t = "string"
    /\ get(fr_reply.dict, StatusKey).v = Complete
    /\ get(fr_reply.dict, ErrorKey).t = "absent"

\* C33: request_files consumes bytes behind the plist reply (the length,
\* the blob) only when the Status of that reply is "Complete"; after any
\* other reply it has consumed none of them, and when it returned, it
\* returned an error.
C33_BlobOnlyAfterComplete ==
    /\ fr_blob > 0 => RepliedComplete
    /\ (fr_pc = "idle" /\ fr_reply.ok /\ ~RepliedComplete)
          => ~fr_result.ok /\ fr_blob = 0

\* The reply of the running (or last) request_diagnostics call has the
\* string "Success" as its Status.
RepliedSuccess ==
    /\ dg_reply.ok
    /\ get(dg_reply.dict, StatusKey).t = "string"
    /\ get(dg_reply.dict, StatusKey).v = Success

\* C34: request_diagnostics returns Ok only to a reply whose Status is
\* "Success", and then the Diagnostics value of the reply; to every other
\* reply, one without Status or with a Status that is no string among
\* them, it returns a DiagnosticsError.
C34_OkOnlyOnSuccess ==
    (dg_pc = "idle" /\ dg_reply.ok)
    => /\ dg_result.ok => RepliedSuccess
       /\ (dg_result.ok /\ get(dg_reply.dict, DiagnosticsKey).t # "absent")
             => dg_result.val = get(dg_reply.dict, DiagnosticsKey)
       /\ ~RepliedSuccess
             => ~dg_result.ok /\ dg_result.err[1] = "DiagnosticsError"

====
